---- MODULE Spec2Model ----
(***************************************************************************)
(* Heritage Shops inventory forecasting: the exclusion-rule evaluator, the *)
(* reorder decision engine and the chat agent of app.py, and the forecast  *)
(* methods and the ensemble combiner of advanced_forecasting.py.           *)
(*                                                                         *)
(* Text is modelled by TLA+ strings, character by character (Len, SubSeq   *)
(* and \o).  Python floats are modelled by exact rationals <<n, d>>, with  *)
(* NaN a value of its own; binary rounding error is not modelled, so a     *)
(* product that is an exact tie in the rationals (126.5) and falls just    *)
(* beside it in binary (126.50000000000001) may round to the other         *)
(* neighbour; no property below depends on the direction of a tie.         *)
(***************************************************************************)
EXTENDS Integers, Sequences, FiniteSets, TLC

VARIABLES
    CURRENT_YEAR,             \* app.py:18, datetime.now().year at start-up
    CURRENT_MONTH,            \* app.py:19, datetime.now().month at start-up
    custom_exclude_keywords,  \* session rule-set: list of keywords
    custom_exclude_items,     \* session rule-set: list of item numbers
    item,                     \* arguments of a get_exclusion_reason call
    reason,                   \* its return value
    sales_df,                 \* the active sales table (list of rows)
    cruise_df,                \* the cruise schedule, or NoneDf
    reorder_weeks,            \* Forecast page slider
    safety_pct,               \* Forecast page slider
    reorder_df,               \* the reorder list, or NoneDf
    reply,                    \* the chat agent's last reply
    historical_sales,         \* arguments of the forecasters
    velocity_category,
    periods_ahead,
    window_size,
    methods,                  \* the four forecasters' return values
    methods64,                \* exponential smoothing and Holt in binary64
    confidence,               \* _calculate_confidence's return value
    season_factors,           \* SeasonalForecaster.season_factors
    target_month,             \* argument of adjust_forecast
    seasonal_forecast,        \* adjust_forecast's return value
    monthly_sales_history,    \* forecast_monthly_demand's (month_str, quantity) list
    forecasts,                \* EnsembleForecaster.forecast's return value
    pc                        \* position of the run

vars == <<CURRENT_YEAR, CURRENT_MONTH, custom_exclude_keywords,
          custom_exclude_items, item, reason, sales_df, cruise_df,
          reorder_weeks, safety_pct, reorder_df, reply, historical_sales,
          velocity_category, periods_ahead, window_size, methods, methods64,
          confidence, season_factors, target_month, seasonal_forecast,
          forecasts, monthly_sales_history, pc>>

-----------------------------------------------------------------------------
(* Bounds of the model.                                                    *)

MinYear == 2025
MaxYear == 2027
MaxCustomKw == 2
MaxCustomItems == 1

-----------------------------------------------------------------------------
(* Numbers: a Python float is the exact rational <<n, d>> in lowest terms  *)
(* with d > 0, or NaN.                                                     *)

NaN == << 0, 0 >>
IsNaN(x) == x[2] = 0

Abs(n) == IF n < 0 THEN -n ELSE n

RECURSIVE GCD(_, _)
GCD(a, b) == IF b = 0 THEN a ELSE GCD(b, a % b)

\* n / d in lowest terms, d # 0
Rat(n, d) ==
    LET g == GCD(Abs(n), Abs(d))
        sgn == IF d < 0 THEN -1 ELSE 1
    IN  << sgn * (n \div g), sgn * (d \div g) >>

RInt(n) == << n, 1 >>

RAdd(x, y) ==
    IF IsNaN(x) \/ IsNaN(y) THEN NaN
    ELSE LET g == GCD(x[2], y[2])
         IN  Rat(x[1] * (y[2] \div g) + y[1] * (x[2] \div g), (x[2] \div g) * y[2])

RNeg(x) == IF IsNaN(x) THEN NaN ELSE << -x[1], x[2] >>
RSub(x, y) == RAdd(x, RNeg(y))

RMul(x, y) ==
    IF IsNaN(x) \/ IsNaN(y) THEN NaN
    ELSE LET a == Rat(x[1], y[2])
             b == Rat(y[1], x[2])
         IN  << a[1] * b[1], a[2] * b[2] >>

\* x / y for y # 0
RDiv(x, y) ==
    IF IsNaN(x) \/ IsNaN(y) THEN NaN
    ELSE RMul(x, Rat(y[2], y[1]))

\* comparisons; every comparison with NaN is false
RLess(x, y) == ~IsNaN(x) /\ ~IsNaN(y) /\ x[1] * y[2] < y[1] * x[2]
RLeq(x, y) == ~IsNaN(x) /\ ~IsNaN(y) /\ x[1] * y[2] <= y[1] * x[2]

\* max(x, y) of Python: y only when y > x
PyMax(x, y) == IF RLess(x, y) THEN y ELSE x

\* round(x): the nearest integer, ties to the even one
PyRound(x) ==
    LET q == x[1] \div x[2]
        r == x[1] - q * x[2]
    IN  IF 2 * r < x[2] THEN q
        ELSE IF 2 * r > x[2] THEN q + 1
        ELSE IF q % 2 = 0 THEN q ELSE q + 1

RECURSIVE Pow10(_)
Pow10(k) == IF k = 0 THEN 1 ELSE 10 * Pow10(k - 1)

\* round(x, ndigits)
PyRoundTo(x, ndigits) ==
    IF IsNaN(x) THEN NaN
    ELSE Rat(PyRound(RMul(x, RInt(Pow10(ndigits)))), Pow10(ndigits))

-----------------------------------------------------------------------------
(* Binary floating point: a Python float as computed, an IEEE-754 binary64 *)
(* [s, m, e] of value (-1)^s * m * 2^e with 2^52 <= m < 2^53, or zero      *)
(* (m = 0).  m is a natural number in limbs of 15 bits, least limb first,  *)
(* without high zero limbs (<<>> is 0).  Results are rounded to nearest,   *)
(* ties to even; the exponent range (overflow, subnormals) is not reached  *)
(* by the quantities of the model.  Operands are bound through singleton   *)
(* sets ({ f(a) : a \in {x} }) so that each is evaluated once.              *)

LimbBase == 2 ^ 15
LimbBits == 15
Precision == 53

RECURSIVE BNorm(_)
BNorm(a) ==
    IF Len(a) = 0 THEN a
    ELSE IF a[Len(a)] = 0 THEN BNorm(SubSeq(a, 1, Len(a) - 1))
    ELSE a

RECURSIVE Big(_)
Big(n) == IF n = 0 THEN << >> ELSE << n % LimbBase >> \o Big(n \div LimbBase)

RECURSIVE BAddC(_, _, _)
BAddC(a, b, carry) ==
    IF Len(a) = 0 /\ Len(b) = 0 THEN (IF carry = 0 THEN << >> ELSE << carry >>)
    ELSE LET x == IF Len(a) = 0 THEN 0 ELSE Head(a)
             y == IF Len(b) = 0 THEN 0 ELSE Head(b)
             t == x + y + carry
         IN  << t % LimbBase >>
             \o BAddC(IF Len(a) = 0 THEN a ELSE Tail(a),
                      IF Len(b) = 0 THEN b ELSE Tail(b), t \div LimbBase)

BAdd(a, b) == BAddC(a, b, 0)

\* a - b - borrow for a >= b + borrow
RECURSIVE BSubC(_, _, _)
BSubC(a, b, borrow) ==
    IF Len(a) = 0 THEN << >>
    ELSE LET y == IF Len(b) = 0 THEN 0 ELSE Head(b)
             t == Head(a) - y - borrow
         IN  << IF t < 0 THEN t + LimbBase ELSE t >>
             \o BSubC(Tail(a), IF Len(b) = 0 THEN b ELSE Tail(b),
                      IF t < 0 THEN 1 ELSE 0)

BSub(a, b) == BNorm(BSubC(a, b, 0))

\* -1, 0, 1 as a < b, a = b, a > b
RECURSIVE BCmp(_, _)
BCmp(a, b) ==
    IF Len(a) # Len(b) THEN (IF Len(a) < Len(b) THEN -1 ELSE 1)
    ELSE IF Len(a) = 0 THEN 0
    ELSE IF a[Len(a)] # b[Len(b)] THEN (IF a[Len(a)] < b[Len(b)] THEN -1 ELSE 1)
    ELSE BCmp(BNorm(SubSeq(a, 1, Len(a) - 1)), BNorm(SubSeq(b, 1, Len(b) - 1)))

\* a * d + carry for one limb d
RECURSIVE BMulLimbC(_, _, _)
BMulLimbC(a, d, carry) ==
    IF Len(a) = 0 THEN (IF carry = 0 THEN << >> ELSE << carry >>)
    ELSE LET t == Head(a) * d + carry
         IN  << t % LimbBase >> \o BMulLimbC(Tail(a), d, t \div LimbBase)

BMulLimb(a, d) == BNorm(BMulLimbC(a, d, 0))

RECURSIVE BMul(_, _)
BMul(a, b) ==
    IF Len(a) = 0 \/ Len(b) = 0 THEN << >>
    ELSE BAdd(BMulLimb(a, Head(b)),
              LET rest == BMul(a, Tail(b))
              IN  IF Len(rest) = 0 THEN rest ELSE << 0 >> \o rest)

\* <<quotient limbs, remainder>> of a by d, 0 < d < LimbBase, from the high limb
RECURSIVE BDivLimbR(_, _, _)
BDivLimbR(a, d, rem) ==
    IF Len(a) = 0 THEN << << >>, rem >>
    ELSE LET t == rem * LimbBase + a[Len(a)]
             r == BDivLimbR(SubSeq(a, 1, Len(a) - 1), d, t % d)
         IN  << r[1] \o << t \div d >>, r[2] >>

BDivLimb(a, d) == LET r == BDivLimbR(a, d, 0) IN << BNorm(r[1]), r[2] >>

Zeros(q) == [ i \in 1..q |-> 0 ]

\* a * 2^k
BShl(a, k) ==
    IF Len(a) = 0 THEN a
    ELSE Zeros(k \div LimbBits) \o BMulLimb(a, 2 ^ (k % LimbBits))

\* floor(a / 2^k)
BShr(a, k) ==
    IF k \div LimbBits >= Len(a) THEN << >>
    ELSE BDivLimb(SubSeq(a, (k \div LimbBits) + 1, Len(a)), 2 ^ (k % LimbBits))[1]

RECURSIVE BitsOf(_)
BitsOf(n) == IF n = 0 THEN 0 ELSE 1 + BitsOf(n \div 2)

BitLen(a) == IF Len(a) = 0 THEN 0 ELSE LimbBits * (Len(a) - 1) + BitsOf(a[Len(a)])

IsOdd(a) == Len(a) # 0 /\ a[1] % 2 = 1

Zero64 == [ s |-> 0, m |-> << >>, e |-> 0 ]

\* (-1)^s * M * 2^e rounded to nearest, ties to even
RoundBits(s, M, e) ==
    IF Len(M) = 0 THEN Zero64
    ELSE LET L == BitLen(M)
         IN  IF L <= Precision
             THEN [ s |-> s, m |-> BShl(M, Precision - L), e |-> e - (Precision - L) ]
             ELSE LET k == L - Precision
                      q == BShr(M, k)
                      rest == BSub(M, BShl(q, k))
                      c == BCmp(rest, BShl(Big(1), k - 1))
                      up == c > 0 \/ (c = 0 /\ IsOdd(q))
                      q1 == IF up THEN BAdd(q, Big(1)) ELSE q
                  IN  IF BitLen(q1) > Precision
                      THEN [ s |-> s, m |-> BShr(q1, 1), e |-> e + k + 1 ]
                      ELSE [ s |-> s, m |-> q1, e |-> e + k ]

Round64(s, M, e) == CHOOSE r \in { RoundBits(s, N, e) : N \in { M } } : TRUE

\* float(n)
FromInt64(n) == Round64(IF n < 0 THEN 1 ELSE 0, Big(Abs(n)), 0)

\* the float literal n/d (d a power of ten): the nearest binary64 to n/d
Literal64(n, d) ==
    LET qr == BDivLimb(BShl(Big(n), 4 * LimbBits + 4), d)
        sticky == IF qr[2] = 0 THEN 0 ELSE 1
    IN  Round64(0, BAdd(BShl(qr[1], 1), Big(sticky)), -(4 * LimbBits + 5))

Neg64(x) == IF Len(x.m) = 0 THEN x ELSE [ x EXCEPT !.s = 1 - x.s ]

Mul64(x, y) ==
    CHOOSE r \in { Round64((a.s + b.s) % 2, BMul(a.m, b.m), a.e + b.e) :
                   a \in { x }, b \in { y } } : TRUE

AddBits(x, y) ==
    IF Len(x.m) = 0 THEN y
    ELSE IF Len(y.m) = 0 THEN x
    ELSE LET e == IF x.e < y.e THEN x.e ELSE y.e
             X == BShl(x.m, x.e - e)
             Y == BShl(y.m, y.e - e)
             c == BCmp(X, Y)
         IN  IF x.s = y.s THEN Round64(x.s, BAdd(X, Y), e)
             ELSE IF c = 0 THEN Zero64
             ELSE IF c > 0 THEN Round64(x.s, BSub(X, Y), e)
             ELSE Round64(y.s, BSub(Y, X), e)

Add64(x, y) == CHOOSE r \in { AddBits(a, b) : a \in { x }, b \in { y } } : TRUE

Sub64(x, y) == CHOOSE r \in { AddBits(a, Neg64(b)) : a \in { x }, b \in { y } } : TRUE

\* the largest d + j 2^i + ... < LimbBase with (d + ...) * b <= t, bit by bit
RECURSIVE DivDigit(_, _, _, _)
DivDigit(t, b, d, i) ==
    IF i < 0 THEN d
    ELSE CHOOSE r \in
           { DivDigit(t, b, d1, i - 1) :
               d1 \in { IF BCmp(BMulLimb(b, d + 2 ^ i), t) <= 0
                        THEN d + 2 ^ i ELSE d } } : TRUE

\* long division of a by b # 0, from the high limb: <<quotient limbs, remainder>>
RECURSIVE BDivLong(_, _, _)
BDivLong(a, b, rem) ==
    IF Len(a) = 0 THEN << << >>, rem >>
    ELSE CHOOSE res \in
           { CHOOSE res1 \in
               { CHOOSE res2 \in
                   { << r[1] \o << d >>, r[2] >> :
                       r \in { BDivLong(SubSeq(a, 1, Len(a) - 1), b,
                                        BSub(t, BMulLimb(b, d))) } } : TRUE :
                   d \in { DivDigit(t, b, 0, LimbBits - 1) } } : TRUE :
               t \in { BNorm(<< a[Len(a)] >> \o rem) } } : TRUE

\* <<floor(a / b), a mod b>> for b # 0
BDivMod(a, b) ==
    CHOOSE r \in
      { CHOOSE r1 \in { << BNorm(qr[1]), qr[2] >> :
                          qr \in { BDivLong(x, y, << >>) } } : TRUE :
          x \in { a }, y \in { b } } : TRUE

\* the largest t + d with (t + d)^2 <= a, d < LimbBase, bit by bit
RECURSIVE SqrtDigit(_, _, _, _)
SqrtDigit(a, t, d, i) ==
    IF i < 0 THEN BAdd(t, Big(d))
    ELSE CHOOSE r \in
           { SqrtDigit(a, t, d1, i - 1) :
               d1 \in { IF BCmp(BMul(BAdd(t, Big(d + 2 ^ i)), BAdd(t, Big(d + 2 ^ i))), a) <= 0
                        THEN d + 2 ^ i ELSE d } } : TRUE

\* floor(sqrt(a)), one limb of the root at a time
RECURSIVE BSqrt(_)
BSqrt(a) ==
    IF Len(a) = 0 THEN a
    ELSE CHOOSE r \in
           { CHOOSE r1 \in
               { SqrtDigit(x, t, 0, LimbBits - 1) :
                   t \in { BShl(BSqrt(BShr(x, 2 * LimbBits)), LimbBits) } } : TRUE :
               x \in { a } } : TRUE

\* x / y for y # 0
DivBits(x, y) ==
    IF Len(x.m) = 0 THEN Zero64
    ELSE LET qr == BDivMod(BShl(x.m, Precision + 3), y.m)
             sticky == IF Len(qr[2]) = 0 THEN 0 ELSE 1
         IN  Round64((x.s + y.s) % 2, BAdd(BShl(qr[1], 1), Big(sticky)),
                     x.e - y.e - (Precision + 4))

Div64(x, y) == CHOOSE r \in { DivBits(a, b) : a \in { x }, b \in { y } } : TRUE

\* sqrt(x) for x >= 0
SqrtBits(x) ==
    IF Len(x.m) = 0 THEN Zero64
    ELSE LET k == IF (x.e - (Precision + 3)) % 2 = 0 THEN Precision + 3
                  ELSE Precision + 4
             M == BShl(x.m, k)
             root == BSqrt(M)
             sticky == IF BCmp(BMul(root, root), M) = 0 THEN 0 ELSE 1
         IN  Round64(0, BAdd(BShl(root, 1), Big(sticky)), ((x.e - k) \div 2) - 1)

Sqrt64(x) == CHOOSE r \in { SqrtBits(a) : a \in { x } } : TRUE

\* x < y
Less64(x, y) ==
    \E d \in { Sub64(x, y) } : Len(d.m) # 0 /\ d.s = 1

\* max(x, y) and min(x, y) of Python: the second only when it is beyond the first
Max64(x, y) == CHOOSE r \in { IF Less64(a, b) THEN b ELSE a : a \in { x }, b \in { y } } : TRUE

Min64(x, y) == CHOOSE r \in { IF Less64(b, a) THEN b ELSE a : a \in { x }, b \in { y } } : TRUE

\* x > 0
Positive64(x) == Len(x.m) # 0 /\ x.s = 0

\* max(0, x): x when x > 0, else the 0 given first
Max0_64(x) == CHOOSE r \in { IF Positive64(a) THEN a ELSE Zero64 : a \in { x } } : TRUE

-----------------------------------------------------------------------------
(* Text: str.lower, the `in` operator on strings, and the regular          *)
(* expression \b(20\d{2})\b.                                               *)

UpperChars == "ABCDEFGHIJKLMNOPQRSTUVWXYZ"
LowerChars == "abcdefghijklmnopqrstuvwxyz"
DigitChars == "0123456789"

CharAt(s, i) == SubSeq(s, i, i)

CharsOf(s) == { CharAt(s, i) : i \in 1..Len(s) }

UpperSet == CharsOf(UpperChars)
DigitSet == CharsOf(DigitChars)
WordSet == UpperSet \cup CharsOf(LowerChars) \cup DigitSet \cup { "_" }

LowerTable ==
    [c \in UpperSet |->
        CharAt(LowerChars, CHOOSE i \in 1..Len(UpperChars) : CharAt(UpperChars, i) = c)]

DigitTable ==
    [c \in DigitSet |->
        (CHOOSE i \in 1..Len(DigitChars) : CharAt(DigitChars, i) = c) - 1]

LowerChar(c) == IF c \in UpperSet THEN LowerTable[c] ELSE c

RECURSIVE Lower(_)
Lower(s) ==
    IF Len(s) = 0 THEN ""
    ELSE LowerChar(CharAt(s, 1)) \o Lower(SubSeq(s, 2, Len(s)))

\* needle in hay (Python): the empty needle is in every string
StrIn(needle, hay) ==
    \E i \in 0..(Len(hay) - Len(needle)) :
        SubSeq(hay, i + 1, i + Len(needle)) = needle

IsDigit(c) == c \in DigitSet
DigitVal(c) == DigitTable[c]

\* \w of the re module on ASCII text
IsWordChar(c) == c \in WordSet

\* \b(20\d{2})\b matches at position i of s
YearMatchAt(s, i) ==
    /\ i + 3 <= Len(s)
    /\ CharAt(s, i) = "2"
    /\ CharAt(s, i + 1) = "0"
    /\ IsDigit(CharAt(s, i + 2))
    /\ IsDigit(CharAt(s, i + 3))
    /\ (i = 1 \/ ~IsWordChar(CharAt(s, i - 1)))
    /\ (i + 3 = Len(s) \/ ~IsWordChar(CharAt(s, i + 4)))

NoYear == 0

\* int(re.search(r"\b(20\d{2})\b", s).group(1)), or NoYear without a match
YearSearch(s) ==
    LET hits == {i \in 1..Len(s) : YearMatchAt(s, i)}
    IN  IF hits = {} THEN NoYear
        ELSE LET i == CHOOSE j \in hits : \A k \in hits : j <= k
             IN  1000 * DigitVal(CharAt(s, i)) + 100 * DigitVal(CharAt(s, i + 1))
                 + 10 * DigitVal(CharAt(s, i + 2)) + DigitVal(CharAt(s, i + 3))

\* x in lst, for a Python list modelled as a sequence
InList(x, lst) == \E i \in 1..Len(lst) : lst[i] = x

-----------------------------------------------------------------------------
(* app.py: the rule tables.                                                *)

EXCLUDE_KEYWORDS ==
    << "shipping charges", "environmental charge", "gift card",
       "gift certificate", "poster tube", "st-receive",
       "clearance", "discontinued", "out of print" >>

DATED_KEYWORDS == << "calendar", "planner", "diary", "agenda", "almanac" >>

SeasonCutoffMonth == 3

-----------------------------------------------------------------------------
(* app.py: get_exclusion_reason.  A reason is the record of what the       *)
(* returned f-string says; NoReason is None.                               *)

Reason(kind, kw, year, margin) ==
    [kind |-> kind, kw |-> kw, year |-> year, margin |-> margin]

NoReason == Reason("None", "", 0, 0)
ManuallyExcluded == Reason("Manually excluded", "", 0, 0)
KeywordReason(kw) == Reason("Service/excluded keyword", kw, 0, 0)
DatedReason(year) == Reason("Dated item", "", year, 0)
SeasonPassedReason(year) == Reason("season passed", "", year, 0)
ZeroSalesReason == Reason("Zero sales", "", 0, 0)

\* f"{margin:.1f}" of a margin held in hundredths of a percent: the number of
\* tenths nearest to it, ties to the even one
FormatMargin(margin) ==
    LET a == IF margin < 0 THEN -margin ELSE margin
        q == a \div 10
        r == a % 10
        t == IF r > 5 \/ (r = 5 /\ q % 2 = 1) THEN q + 1 ELSE q
    IN  IF margin < 0 THEN -t ELSE t

NegativeMarginReason(margin) == Reason("Negative margin", "", 0, FormatMargin(margin))

\* for kw in (custom_kw + EXCLUDE_KEYWORDS): if kw.lower() in desc_lower
\* a custom list that replaces the built-in one instead of preceding it
KeywordRule_CustomReplacesBuiltIn(desc_lower, custom_kw) ==
    LET kws == IF Len(custom_kw) > 0 THEN custom_kw ELSE EXCLUDE_KEYWORDS
        hits == {i \in 1..Len(kws) : StrIn(Lower(kws[i]), desc_lower)}
    IN  IF hits = {} THEN NoReason
        ELSE KeywordReason(kws[CHOOSE i \in hits : \A j \in hits : i <= j])

\* the built-in keywords tried before the custom ones
KeywordRule_BuiltInFirst(desc_lower, custom_kw) ==
    LET kws == EXCLUDE_KEYWORDS \o custom_kw
        hits == {i \in 1..Len(kws) : StrIn(Lower(kws[i]), desc_lower)}
    IN  IF hits = {} THEN NoReason
        ELSE KeywordReason(kws[CHOOSE i \in hits : \A j \in hits : i <= j])

KeywordRule(desc_lower, custom_kw) ==
    LET kws == custom_kw \o EXCLUDE_KEYWORDS
        hits == {i \in 1..Len(kws) : StrIn(Lower(kws[i]), desc_lower)}
    IN  IF hits = {} THEN NoReason
        ELSE KeywordReason(kws[CHOOSE i \in hits : \A j \in hits : i <= j])

\* DatedBody with the season cutoff applied to past years too
DatedBody_CutoffOnPastYears(desc) ==
    LET item_year == YearSearch(desc)
    IN  IF item_year = NoYear THEN NoReason
        ELSE IF item_year < CURRENT_YEAR /\ CURRENT_MONTH > SeasonCutoffMonth
             THEN DatedReason(item_year)
        ELSE IF item_year = CURRENT_YEAR /\ CURRENT_MONTH > SeasonCutoffMonth
             THEN SeasonPassedReason(item_year)
        ELSE NoReason

\* DatedBody with the season cutoff one month early (>= for >)
DatedBody_CutoffInclusive(desc) ==
    LET item_year == YearSearch(desc)
    IN  IF item_year = NoYear THEN NoReason
        ELSE IF item_year < CURRENT_YEAR THEN DatedReason(item_year)
        ELSE IF item_year = CURRENT_YEAR /\ CURRENT_MONTH >= SeasonCutoffMonth
             THEN SeasonPassedReason(item_year)
        ELSE NoReason

\* the body of the DATED_KEYWORDS loop for one keyword
DatedBody(desc) ==
    LET item_year == YearSearch(desc)
    IN  IF item_year = NoYear THEN NoReason
        ELSE IF item_year < CURRENT_YEAR THEN DatedReason(item_year)
        ELSE IF item_year = CURRENT_YEAR /\ CURRENT_MONTH > SeasonCutoffMonth
             THEN SeasonPassedReason(item_year)
        ELSE NoReason

\* for kw in DATED_KEYWORDS: if kw in desc_lower: ...
DatedRule(desc, desc_lower) ==
    LET body == DatedBody(desc)
        hits == {i \in 1..Len(DATED_KEYWORDS) :
                    StrIn(DATED_KEYWORDS[i], desc_lower) /\ body # NoReason}
    IN  IF hits = {} THEN NoReason ELSE body

\* get_exclusion_reason with the margin test moved before the keyword loop
get_exclusion_reason_MarginFirst(desc, item_num, margin, sold, custom_kw, custom_items) ==
    LET desc_lower == Lower(desc)
        by_keyword == KeywordRule(desc_lower, custom_kw)
        by_date == DatedRule(desc, desc_lower)
    IN  IF InList(item_num, custom_items) THEN ManuallyExcluded
        ELSE IF margin < 0 THEN NegativeMarginReason(margin)
        ELSE IF by_keyword # NoReason THEN by_keyword
        ELSE IF by_date # NoReason THEN by_date
        ELSE IF sold = 0 THEN ZeroSalesReason
        ELSE NoReason

\* get_exclusion_reason without the zero-sales rule
get_exclusion_reason_NoZeroSales(desc, item_num, margin, sold, custom_kw, custom_items) ==
    LET desc_lower == Lower(desc)
        by_keyword == KeywordRule(desc_lower, custom_kw)
        by_date == DatedRule(desc, desc_lower)
    IN  IF InList(item_num, custom_items) THEN ManuallyExcluded
        ELSE IF by_keyword # NoReason THEN by_keyword
        ELSE IF by_date # NoReason THEN by_date
        ELSE IF margin < 0 THEN NegativeMarginReason(margin)
        ELSE NoReason

get_exclusion_reason(desc, item_num, margin, sold, custom_kw, custom_items) ==
    LET desc_lower == Lower(desc)
        by_keyword == KeywordRule(desc_lower, custom_kw)
        by_date == DatedRule(desc, desc_lower)
    IN  IF InList(item_num, custom_items) THEN ManuallyExcluded
        ELSE IF by_keyword # NoReason THEN by_keyword
        ELSE IF by_date # NoReason THEN by_date
        ELSE IF margin < 0 THEN NegativeMarginReason(margin)
        ELSE IF sold = 0 THEN ZeroSalesReason
        ELSE NoReason

-----------------------------------------------------------------------------
(* The inputs the runs are started from.                                   *)

Years == MinYear..MaxYear
Months == 1..12

\* None, where a table (a sequence of rows) may stand
NoneDf == << [None |-> TRUE] >>

\* None, where a dict may stand
NoResult == [None |-> TRUE]

\* Descriptions as a sales export carries them
Descriptions ==
    { "Puffin Mug", "GIFT CARD 25", "Clearance Calendar 2025",
      "Calendar 2025", "Wall Calendar 2026", "Planner 2027",
      "Desk Calendar", "DIARY2025", "Almanac 2025_26",
      "Agenda 2026 2025", "Agenda 2027/2026", "Mug 2025" }

ItemNumbers == { "107114", "200300" }

\* Margin in hundredths of a percent
Margins == { -1250, 0, 500 }

UnitsSold == { 0, 3 }

\* Keywords as the Settings page and the chat agent store them (lower case)
CustomKeywords == { "mug", "calendar", "" }

\* the lists without duplicates, of at most n elements of S
RECURSIVE ListsOf(_, _)
ListsOf(S, n) ==
    IF n = 0 THEN { << >> }
    ELSE LET shorter == ListsOf(S, n - 1)
         IN  shorter \cup
             { Append(l, x) : l \in { m \in shorter : Len(m) = n - 1 },
                              x \in S }

NoDuplicates(l) == \A i, j \in 1..Len(l) : l[i] = l[j] => i = j

KeywordLists == { l \in ListsOf(CustomKeywords, MaxCustomKw) : NoDuplicates(l) }
CustomItemNumbers == { "107114" }
ItemLists == { l \in ListsOf(CustomItemNumbers, MaxCustomItems) : NoDuplicates(l) }

Item(desc, item_num, margin, sold) ==
    [Description |-> desc, ItemNumber |-> item_num,
     Margin |-> margin, NumberSold |-> sold]

NoItem == Item("", "", 0, 0)

-----------------------------------------------------------------------------
(* The exclusion-rule evaluator on its own: one call of                    *)
(* get_exclusion_reason on every item, rule-set and date.                  *)

Idle ==
    /\ sales_df = << >>
    /\ cruise_df = NoneDf
    /\ reorder_weeks = 0
    /\ safety_pct = 0
    /\ reorder_df = NoneDf
    /\ reply = NoResult
    /\ historical_sales = << >>
    /\ velocity_category = ""
    /\ periods_ahead = 0
    /\ window_size = 0
    /\ methods = NoResult
    /\ methods64 = NoResult
    /\ confidence = NoResult
    /\ season_factors = << >>
    /\ target_month = 0
    /\ seasonal_forecast = NoResult
    /\ monthly_sales_history = << >>
    /\ forecasts = NoResult

InitExclusion ==
    /\ CURRENT_YEAR \in Years
    /\ CURRENT_MONTH \in Months
    /\ custom_exclude_keywords \in KeywordLists
    /\ custom_exclude_items \in ItemLists
    /\ item \in { Item(d, n, m, s) : d \in Descriptions, n \in ItemNumbers,
                                     m \in Margins, s \in UnitsSold }
    /\ reason = NoReason
    /\ pc = "call"
    /\ Idle

Evaluate ==
    /\ pc = "call"
    /\ reason' = get_exclusion_reason(item.Description, item.ItemNumber,
                                      item.Margin, item.NumberSold,
                                      custom_exclude_keywords,
                                      custom_exclude_items)
    /\ pc' = "returned"
    /\ UNCHANGED <<monthly_sales_history,
                   CURRENT_YEAR, CURRENT_MONTH, custom_exclude_keywords,
                   custom_exclude_items, item, sales_df, cruise_df,
                   reorder_weeks, safety_pct, reorder_df, reply,
                   historical_sales, velocity_category, periods_ahead,
                   window_size, methods, forecasts, methods64, confidence,
                   season_factors, target_month, seasonal_forecast>>

NextExclusion == Evaluate

SpecExclusion == InitExclusion /\ [][NextExclusion]_vars

-----------------------------------------------------------------------------
(* app.py: the seasonal table, the cruise schedule, safe_weeks and         *)
(* classify_velocity.                                                      *)

\* SEASONAL_INDEX, in hundredths
SEASONAL_INDEX ==
    [mo \in 1..12 |->
        Rat(<< 35, 35, 40, 55, 75, 120, 250, 240, 150, 90, 55, 80 >>[mo], 100)]

\* SEASONAL_INDEX.get(month, 1.0)
SeasonalGet(month) ==
    IF month \in DOMAIN SEASONAL_INDEX THEN SEASONAL_INDEX[month] ELSE RInt(1)

\* a schedule row: Date, Passengers, and Month = Date.strftime("%Y-%m")
Sailing(y, mo, d, pax) ==
    [Date |-> << y, mo, d >>, Month |-> << y, mo >>, Passengers |-> pax]

OFFICIAL_2026_SCHEDULE ==
    << 
       Sailing(2026, 5, 21, 152), Sailing(2026, 6, 5, 1839), Sailing(2026, 6, 16, 1839),
       Sailing(2026, 6, 25, 1839), Sailing(2026, 6, 26, 2886), Sailing(2026, 7, 14, 1321),
       Sailing(2026, 7, 14, 3592), Sailing(2026, 8, 18, 2388), Sailing(2026, 8, 20, 694),
       Sailing(2026, 8, 24, 154), Sailing(2026, 8, 26, 1839), Sailing(2026, 8, 30, 754),
       Sailing(2026, 8, 31, 2886), Sailing(2026, 9, 2, 154), Sailing(2026, 9, 2, 2500),
       Sailing(2026, 9, 3, 913), Sailing(2026, 9, 7, 1839), Sailing(2026, 9, 8, 2388),
       Sailing(2026, 9, 11, 78), Sailing(2026, 9, 12, 154), Sailing(2026, 9, 14, 230),
       Sailing(2026, 9, 15, 2770), Sailing(2026, 9, 19, 694), Sailing(2026, 9, 22, 154),
       Sailing(2026, 9, 22, 200), Sailing(2026, 9, 22, 78), Sailing(2026, 9, 23, 1200),
       Sailing(2026, 9, 27, 161), Sailing(2026, 9, 29, 1200), Sailing(2026, 9, 30, 1200),
       Sailing(2026, 9, 30, 638), Sailing(2026, 10, 1, 212), Sailing(2026, 10, 1, 154),
       Sailing(2026, 10, 2, 264), Sailing(2026, 10, 7, 600), Sailing(2026, 10, 8, 200),
       Sailing(2026, 10, 10, 154), Sailing(2026, 10, 11, 186) >>

ScheduleYear == 2026

\* a schedule as load_cruise_csv returns it from an uploaded file
UploadedSchedule ==
    << Sailing(ScheduleYear, 1, 15, 3000), Sailing(ScheduleYear, 6, 1, 5000),
       Sailing(ScheduleYear, 7, 1, 1200), Sailing(ScheduleYear, 7, 2, 800),
       Sailing(ScheduleYear + 1, 1, 10, 6000) >>

DefaultWeeks == 52

\* safe_weeks(df): the Actual Weeks of the first row, 52.0 without one
safe_weeks(df) ==
    IF df # NoneDf /\ Len(df) > 0 THEN df[1].ActualWeeks ELSE RInt(DefaultWeeks)

FastPerWeek == 2

\* a classification that calls an item without sales slow
classify_velocity_SlowAtZero(sold, actual_weeks) ==
    LET weekly == RDiv(RInt(sold), PyMax(actual_weeks, RInt(1)))
    IN  IF RLeq(RInt(FastPerWeek), weekly) THEN "Fast"
        ELSE IF RLeq(Rat(1, 2), weekly) THEN "Medium"
        ELSE IF RLeq(RInt(0), weekly) THEN "Slow"
        ELSE "Dead"

classify_velocity(sold, actual_weeks) ==
    LET weekly == RDiv(RInt(sold), PyMax(actual_weeks, RInt(1)))
    IN  IF RLeq(RInt(FastPerWeek), weekly) THEN "Fast"
        ELSE IF RLeq(Rat(1, 2), weekly) THEN "Medium"
        ELSE IF RLess(RInt(0), weekly) THEN "Slow"
        ELSE "Dead"

-----------------------------------------------------------------------------
(* app.py: build_reorder.                                                  *)

UrgentThreshold == 8
WarningThreshold == 3
PaxHigh == 5000
PaxMid == 2000

\* (CURRENT_MONTH % 12) + 1
NextMonth == (CURRENT_MONTH % 12) + 1

RECURSIVE SumPassengers(_, _)
\* cruise_df[cruise_df["Month"] == nm]["Passengers"].sum()
SumPassengers(cdf, nm) ==
    IF Len(cdf) = 0 THEN 0
    ELSE (IF Head(cdf).Month = nm THEN Head(cdf).Passengers ELSE 0)
         + SumPassengers(Tail(cdf), nm)

\* the bands with inclusive comparisons, for contrast with the strict ones
CruiseMult_InclusiveBands(cdf) ==
    IF cdf # NoneDf /\ Len(cdf) > 0
    THEN LET nm == << CURRENT_YEAR, NextMonth >>
             pax == SumPassengers(cdf, nm)
         IN  IF pax >= PaxHigh THEN Rat(135, 100)
             ELSE IF pax >= PaxMid THEN Rat(120, 100)
             ELSE IF pax > 0 THEN Rat(110, 100)
             ELSE RInt(1)
    ELSE RInt(1)

CruiseMult(cdf) ==
    IF cdf # NoneDf /\ Len(cdf) > 0
    THEN LET nm == << CURRENT_YEAR, NextMonth >>
             pax == SumPassengers(cdf, nm)
         IN  IF pax > PaxHigh THEN Rat(135, 100)
             ELSE IF pax > PaxMid THEN Rat(120, 100)
             ELSE IF pax > 0 THEN Rat(110, 100)
             ELSE RInt(1)
    ELSE RInt(1)

\* avg_weekly = sold / max(actual_weeks, 1.0)
AvgWeekly(sold, actual_weeks) == RDiv(RInt(sold), PyMax(actual_weeks, RInt(1)))

\* forecast = avg_weekly * reorder_weeks * seasonal * cruise_mult
ForecastQty(avg_weekly, rweeks, seasonal, cruise_mult) ==
    RMul(RMul(RMul(avg_weekly, RInt(rweeks)), seasonal), cruise_mult)

\* safety = forecast * (safety_pct / 100)
SafetyStock(forecast, spct) == RMul(forecast, Rat(spct, 100))

\* SuggestedOrder without the floor of 1
SuggestedOrder_NoFloor(forecast, safety) == PyRound(RAdd(forecast, safety))

\* suggested = max(1, round(forecast + safety))
SuggestedOrder(forecast, safety) ==
    LET rounded == PyRound(RAdd(forecast, safety))
    IN  IF rounded > 1 THEN rounded ELSE 1

\* PriorityOf with > for >= on the high threshold
PriorityOf_StrictUrgent(rsn, suggested) ==
    IF rsn # NoReason THEN "EXCLUDED"
    ELSE IF suggested > UrgentThreshold THEN "URGENT"
    ELSE IF suggested >= WarningThreshold THEN "WARNING"
    ELSE "OK"

\* the if/elif chain on reason and suggested
PriorityOf(rsn, suggested) ==
    IF rsn # NoReason THEN "EXCLUDED"
    ELSE IF suggested >= UrgentThreshold THEN "URGENT"
    ELSE IF suggested >= WarningThreshold THEN "WARNING"
    ELSE "OK"

\* reason or ""
EmptyText == Reason("", "", 0, 0)
ReasonOrEmpty(rsn) == IF rsn # NoReason THEN rsn ELSE EmptyText

\* the body of the loop over df.iterrows()
ReorderRow(r, actual_weeks, seasonal, cruise_mult, rweeks, spct, custom_kw, custom_items) ==
    LET sold == r.NumberSold
        margin == r.Margin
        rsn == get_exclusion_reason(r.Description, r.ItemNumber, margin, sold,
                                    custom_kw, custom_items)
        avg_weekly == AvgWeekly(sold, actual_weeks)
        forecast == ForecastQty(avg_weekly, rweeks, seasonal, cruise_mult)
        safety == SafetyStock(forecast, spct)
        suggested == SuggestedOrder(forecast, safety)
        velocity == classify_velocity(sold, actual_weeks)
    IN  [Priority |-> PriorityOf(rsn, suggested),
         ItemNum |-> r.ItemNumber,
         Description |-> r.Description,
         Velocity |-> velocity,
         TotalSold |-> sold,
         ReportWeeks |-> PyRoundTo(actual_weeks, 1),
         AvgWeek |-> PyRoundTo(avg_weekly, 2),
         SeasonalIdx |-> seasonal,
         CruiseMultiplier |-> PyRoundTo(cruise_mult, 2),
         ForecastQuantity |-> PyRoundTo(forecast, 1),
         SuggestedOrderQty |-> suggested,
         MarginPct |-> margin,
         ExclusionReason |-> ReasonOrEmpty(rsn),
         Branch |-> r.Branch]

build_reorder(df, cdf, rweeks, spct, custom_kw, custom_items) ==
    LET seasonal == SeasonalGet(NextMonth)
        actual_weeks == safe_weeks(df)
        cruise_mult == CruiseMult(cdf)
    IN  [i \in 1..Len(df) |->
            ReorderRow(df[i], actual_weeks, seasonal, cruise_mult, rweeks, spct,
                       custom_kw, custom_items)]

-----------------------------------------------------------------------------
(* app.py: agent_respond.  A reply is the record of what the reply text    *)
(* reports.                                                                *)

RECURSIVE LStrip(_)
LStrip(s) ==
    IF Len(s) > 0 /\ CharAt(s, 1) = " " THEN LStrip(SubSeq(s, 2, Len(s))) ELSE s

RECURSIVE RStripChar(_, _)
RStripChar(s, c) ==
    IF Len(s) > 0 /\ CharAt(s, Len(s)) = c
    THEN RStripChar(SubSeq(s, 1, Len(s) - 1), c)
    ELSE s

\* s.strip()
Strip(s) == RStripChar(LStrip(s), " ")

\* s.split(sep)[-1], for a separator that occurs in s
AfterLast(s, sep) ==
    LET at == { i \in 0..(Len(s) - Len(sep)) : SubSeq(s, i + 1, i + Len(sep)) = sep }
        last == CHOOSE i \in at : \A j \in at : j <= i
    IN  SubSeq(s, last + Len(sep) + 1, Len(s))

QuoteChars == { "'", "\"" }

\* re.search(r"[\"'](.*?)[\"']", s): the positions of the first two quotes
QuotePositions(s) == { i \in 1..Len(s) : CharAt(s, i) \in QuoteChars }
HasQuoted(s) == Cardinality(QuotePositions(s)) >= 2
Quoted(s) ==
    LET q == QuotePositions(s)
        a == CHOOSE i \in q : \A j \in q : i <= j
        b == CHOOSE i \in q \ { a } : \A j \in q \ { a } : i <= j
    IN  SubSeq(s, a + 1, b - 1)

AnyIn(words, s) == \E w \in words : StrIn(w, s)

\* df[df[column] == value], for the Priority column
WithPriority(rdf, p) == SelectSeq(rdf, LAMBDA row : row.Priority = p)

RECURSIVE SumSuggested(_)
\* reorder_df["Suggested Order"].sum()
SumSuggested(rdf) ==
    IF Len(rdf) = 0 THEN 0
    ELSE Head(rdf).SuggestedOrderQty + SumSuggested(Tail(rdf))

HeadCount == 10

\* df.head(10)
HeadRows(rdf) == SubSeq(rdf, 1, IF Len(rdf) < HeadCount THEN Len(rdf) ELSE HeadCount)

Reply(kind, text, rows, counts, total) ==
    [kind |-> kind, text |-> text, rows |-> rows, counts |-> counts, total |-> total]

NoCounts == << 0, 0, 0, 0 >>

\* the "why is / why was / explain" branch for the first trigger in msg
WhyReply(msg, rdf) ==
    LET triggers == << "why is", "why was", "explain" >>
        first == CHOOSE i \in 1..3 :
                    /\ StrIn(triggers[i], msg)
                    /\ \A j \in 1..(i - 1) : ~StrIn(triggers[j], msg)
        token == Strip(RStripChar(Strip(AfterLast(msg, triggers[first])), "?"))
        matches == SelectSeq(rdf, LAMBDA row :
                       StrIn(token, Lower(row.Description)) \/ StrIn(token, row.ItemNum))
    IN  IF Len(matches) > 0
        THEN IF matches[1].ExclusionReason # EmptyText
             THEN Reply("excluded", token, << matches[1] >>, NoCounts, 0)
             ELSE Reply("priority", token, << matches[1] >>, NoCounts, 0)
        ELSE Reply("not found", token, << >>, NoCounts, 0)

Result(rep, custom_kw, custom_items) ==
    [reply |-> rep, custom_kw |-> custom_kw, custom_items |-> custom_items]

\* an agent that stores the text of an exclude command that has no quotes
agent_respond_UnquotedAdds(user_msg, rdf, custom_kw, custom_items, context_df) ==
    LET msg == Strip(Lower(user_msg))
    IN  IF AnyIn({ "exclude", "block", "remove", "never suggest" }, msg)
           /\ ~HasQuoted(msg)
        THEN Result(Reply("rule added", msg, << >>, NoCounts, 0),
                    Append(custom_kw, msg), custom_items)
        ELSE Result(Reply("help", "", << >>, NoCounts, 0), custom_kw, custom_items)

agent_respond(user_msg, rdf, custom_kw, custom_items, context_df) ==
    LET msg == Strip(Lower(user_msg))
    IN  IF AnyIn({ "why is", "why was", "explain" }, msg)
        THEN Result(WhyReply(msg, rdf), custom_kw, custom_items)
        ELSE IF AnyIn({ "exclude", "block", "remove", "never suggest" }, msg)
        THEN IF HasQuoted(msg)
             THEN LET new_kw == Lower(Quoted(msg))
                  IN  Result(Reply("rule added", new_kw, << >>, NoCounts, 0),
                             IF InList(new_kw, custom_kw) THEN custom_kw
                             ELSE Append(custom_kw, new_kw),
                             custom_items)
             ELSE Result(Reply("put the keyword in quotes", "", << >>, NoCounts, 0),
                         custom_kw, custom_items)
        ELSE IF AnyIn({ "urgent", "critical" }, msg)
        THEN LET urgent == WithPriority(rdf, "URGENT")
             IN  Result(Reply("urgent", "", HeadRows(urgent),
                              << Len(urgent), 0, 0, 0 >>, 0),
                        custom_kw, custom_items)
        ELSE IF StrIn("warning", msg)
        THEN LET warn == WithPriority(rdf, "WARNING")
             IN  Result(Reply("warning", "", HeadRows(warn),
                              << 0, Len(warn), 0, 0 >>, 0),
                        custom_kw, custom_items)
        ELSE IF AnyIn({ "top", "best seller", "best selling", "highest" }, msg)
        THEN Result(Reply(IF context_df # NoneDf THEN "top sellers" ELSE "no sales data",
                          "", << >>, NoCounts, 0),
                    custom_kw, custom_items)
        ELSE IF StrIn("cruise", msg)
        THEN Result(Reply(IF context_df # NoneDf THEN "cruise week" ELSE "no sales data",
                          "", << >>, NoCounts, 0),
                    custom_kw, custom_items)
        ELSE IF AnyIn({ "rule", "exclusion" }, msg)
        THEN Result(Reply("rules", "", EXCLUDE_KEYWORDS \o custom_kw, NoCounts, 0),
                    custom_kw, custom_items)
        ELSE IF AnyIn({ "summary", "overview" }, msg)
        THEN Result(Reply("summary", "", << >>,
                          << Len(WithPriority(rdf, "URGENT")),
                             Len(WithPriority(rdf, "WARNING")),
                             Len(WithPriority(rdf, "OK")),
                             Len(WithPriority(rdf, "EXCLUDED")) >>,
                          SumSuggested(rdf)),
                    custom_kw, custom_items)
        ELSE Result(Reply("help", "", << >>, NoCounts, 0), custom_kw, custom_items)

-----------------------------------------------------------------------------
(* The reorder engine and the chat agent: build_reorder on a sales table,  *)
(* then one chat message answered from the reorder list.                   *)

MaxRows == 2

SalesRow(item_num, desc, sold, margin, branch, weeks10) ==
    [ItemNumber |-> item_num, Description |-> desc, NumberSold |-> sold,
     Margin |-> margin, Branch |-> branch, ActualWeeks |-> Rat(weeks10, 10)]

\* rows as parse_csv returns them; Actual Weeks in tenths of a week
SalesRows ==
    { SalesRow("107114", "Puffin Mug", 130, 500, "1", 520),
      SalesRow("200300", "GIFT CARD 25", 520, 500, "1", 520),
      SalesRow("300400", "Moose Magnet", 0, 500, "1", 520),
      SalesRow("400500", "Wall Calendar 2026", 13, -1250, "2", 43),
      SalesRow("600700", "Lapel Pin", -2, 500, "3", 1) }

\* a table holds at least one row, and each item of a branch once
SalesTables == { t \in ListsOf(SalesRows, MaxRows) : Len(t) > 0 /\ NoDuplicates(t) }

CruiseSchedules == { NoneDf, OFFICIAL_2026_SCHEDULE, UploadedSchedule }

\* the values of the two sliders that are tried
ReorderWeeksValues == { 2, 4 }
SafetyPctValues == { 0, 15 }

ChatMessages ==
    { "Summary", "Show urgent items", "Why is mug excluded?", "Exclude 'scarf'" }

InitReorder ==
    /\ CURRENT_YEAR = ScheduleYear
    /\ CURRENT_MONTH \in Months
    /\ custom_exclude_keywords \in { l \in KeywordLists : \A i \in 1..Len(l) : l[i] = "mug" }
    /\ custom_exclude_items \in ItemLists
    /\ sales_df \in SalesTables
    /\ cruise_df \in CruiseSchedules
    /\ reorder_weeks \in ReorderWeeksValues
    /\ safety_pct \in SafetyPctValues
    /\ reorder_df = NoneDf
    /\ reply = NoResult
    /\ item = NoItem
    /\ reason = NoReason
    /\ historical_sales = << >>
    /\ velocity_category = ""
    /\ periods_ahead = 0
    /\ window_size = 0
    /\ methods = NoResult
    /\ methods64 = NoResult
    /\ confidence = NoResult
    /\ season_factors = << >>
    /\ target_month = 0
    /\ seasonal_forecast = NoResult
    /\ monthly_sales_history = << >>
    /\ forecasts = NoResult
    /\ pc = "forecast page"

\* the Forecast & Reorder page: rdf = build_reorder(...); session reorder_df = rdf
ForecastPage ==
    /\ pc = "forecast page"
    /\ reorder_df' = build_reorder(sales_df, cruise_df, reorder_weeks, safety_pct,
                                   custom_exclude_keywords, custom_exclude_items)
    /\ pc' = "chat page"
    /\ UNCHANGED <<monthly_sales_history,
                   CURRENT_YEAR, CURRENT_MONTH, custom_exclude_keywords,
                   custom_exclude_items, item, reason, sales_df, cruise_df,
                   reorder_weeks, safety_pct, reply, historical_sales,
                   velocity_category, periods_ahead, window_size, methods,
                   forecasts, methods64, confidence, season_factors,
                   target_month, seasonal_forecast>>

\* the QA Agent Chat page with one user input
ChatPage ==
    /\ pc = "chat page"
    /\ reorder_df # NoneDf
    /\ \E user_input \in ChatMessages :
          LET res == agent_respond(user_input, reorder_df, custom_exclude_keywords,
                                   custom_exclude_items, sales_df)
          IN  /\ reply' = res.reply
              /\ custom_exclude_keywords' = res.custom_kw
              /\ custom_exclude_items' = res.custom_items
    /\ pc' = "answered"
    /\ UNCHANGED <<monthly_sales_history,
                   CURRENT_YEAR, CURRENT_MONTH, item, reason, sales_df,
                   cruise_df, reorder_weeks, safety_pct, reorder_df,
                   historical_sales, velocity_category, periods_ahead,
                   window_size, methods, forecasts, methods64, confidence,
                   season_factors, target_month, seasonal_forecast>>

NextReorder == ForecastPage \/ ChatPage

SpecReorder == InitReorder /\ [][NextReorder]_vars

-----------------------------------------------------------------------------
(* app.py: one session. The user moves between the pages; the Settings     *)
(* page adds and deletes custom keywords and adds item numbers, the chat   *)
(* page hands each input to agent_respond. EXCLUDE_KEYWORDS is read at     *)
(* lines 228, 399 and 870 only, each time into a new list.                 *)

SessionPages == { "forecast page", "chat page", "settings page" }

\* st.text_input("Add keyword to exclude")
KeywordInputs == { "Mug", "" }

\* st.text_input("Add Item Number to exclude (e.g. 107114)")
ItemInputs == { "107114", "" }

SessionMessages ==
    { "Exclude 'scarf'", "Never suggest \"Mug\" again", "block scarf",
      "remove item 107114", "Show rules", "Explain 'gift card'",
      "Explain mug", "exclude ''" }

SessionTables ==
    { << SalesRow("107114", "Puffin Mug", 130, 500, "1", 520),
         SalesRow("200300", "GIFT CARD 25", 520, 500, "1", 520) >> }

\* list.pop(i)
Pop(lst, i) == SubSeq(lst, 1, i - 1) \o SubSeq(lst, i + 1, Len(lst))

InitSession ==
    /\ CURRENT_YEAR = ScheduleYear
    /\ CURRENT_MONTH \in { 6, 12 }
    /\ custom_exclude_keywords = << >>
    /\ custom_exclude_items = << >>
    /\ sales_df \in SessionTables
    /\ cruise_df = NoneDf
    /\ reorder_weeks = 4
    /\ safety_pct = 15
    /\ reorder_df = NoneDf
    /\ reply = NoResult
    /\ item = NoItem
    /\ reason = NoReason
    /\ historical_sales = << >>
    /\ velocity_category = ""
    /\ periods_ahead = 0
    /\ window_size = 0
    /\ methods = NoResult
    /\ methods64 = NoResult
    /\ confidence = NoResult
    /\ season_factors = << >>
    /\ target_month = 0
    /\ seasonal_forecast = NoResult
    /\ monthly_sales_history = << >>
    /\ forecasts = NoResult
    /\ pc = "forecast page"

\* the sidebar: the user selects another page
SelectPage ==
    /\ pc \in SessionPages \cup { "answered" }
    /\ \E page \in SessionPages \ { pc } : pc' = page
    /\ UNCHANGED <<monthly_sales_history,
                   CURRENT_YEAR, CURRENT_MONTH, custom_exclude_keywords,
                   custom_exclude_items, item, reason, sales_df, cruise_df,
                   reorder_weeks, safety_pct, reorder_df, reply,
                   historical_sales, velocity_category, periods_ahead,
                   window_size, methods, forecasts, methods64, confidence,
                   season_factors, target_month, seasonal_forecast>>

\* Settings: "Add Rule" with the text of the keyword input
SettingsAddKeyword ==
    /\ pc = "settings page"
    /\ Len(custom_exclude_keywords) < MaxCustomKw
    /\ \E new_kw \in KeywordInputs :
          custom_exclude_keywords' =
             IF new_kw # "" /\ ~InList(Lower(new_kw), custom_exclude_keywords)
             THEN Append(custom_exclude_keywords, Lower(new_kw))
             ELSE custom_exclude_keywords
    /\ UNCHANGED <<monthly_sales_history,
                   CURRENT_YEAR, CURRENT_MONTH, custom_exclude_items, item,
                   reason, sales_df, cruise_df, reorder_weeks, safety_pct,
                   reorder_df, reply, historical_sales, velocity_category,
                   periods_ahead, window_size, methods, forecasts, methods64,
                   confidence, season_factors, target_month,
                   seasonal_forecast, pc>>

\* Settings: the delete button of the keyword at position i
DeleteKeywordAt(i) ==
    /\ pc = "settings page"
    /\ i \in 1..Len(custom_exclude_keywords)
    /\ custom_exclude_keywords' = Pop(custom_exclude_keywords, i)
    /\ UNCHANGED <<monthly_sales_history,
                   CURRENT_YEAR, CURRENT_MONTH, custom_exclude_items, item,
                   reason, sales_df, cruise_df, reorder_weeks, safety_pct,
                   reorder_df, reply, historical_sales, velocity_category,
                   periods_ahead, window_size, methods, forecasts, methods64,
                   confidence, season_factors, target_month,
                   seasonal_forecast, pc>>

SettingsDeleteKeyword == \E i \in 1..MaxCustomKw : DeleteKeywordAt(i)

\* Settings: "Add Item" with the text of the item number input
SettingsAddItem ==
    /\ pc = "settings page"
    /\ Len(custom_exclude_items) < MaxCustomItems
    /\ \E new_item \in ItemInputs :
          custom_exclude_items' =
             IF new_item # "" /\ ~InList(new_item, custom_exclude_items)
             THEN Append(custom_exclude_items, new_item)
             ELSE custom_exclude_items
    /\ UNCHANGED <<monthly_sales_history,
                   CURRENT_YEAR, CURRENT_MONTH, custom_exclude_keywords, item,
                   reason, sales_df, cruise_df, reorder_weeks, safety_pct,
                   reorder_df, reply, historical_sales, velocity_category,
                   periods_ahead, window_size, methods, forecasts, methods64,
                   confidence, season_factors, target_month,
                   seasonal_forecast, pc>>

\* the chat page of a session: one input; the page stays open for the next
SessionChat ==
    /\ pc = "chat page"
    /\ reorder_df # NoneDf
    /\ \E user_input \in SessionMessages :
          LET res == agent_respond(user_input, reorder_df, custom_exclude_keywords,
                                   custom_exclude_items, sales_df)
          IN  /\ Len(res.custom_kw) <= MaxCustomKw
              /\ reply' = res.reply
              /\ custom_exclude_keywords' = res.custom_kw
              /\ custom_exclude_items' = res.custom_items
    /\ UNCHANGED <<monthly_sales_history,
                   CURRENT_YEAR, CURRENT_MONTH, item, reason, sales_df,
                   cruise_df, reorder_weeks, safety_pct, reorder_df,
                   historical_sales, velocity_category, periods_ahead,
                   window_size, methods, forecasts, methods64, confidence,
                   season_factors, target_month, seasonal_forecast, pc>>

NextSession ==
    \/ SelectPage
    \/ ForecastPage
    \/ SessionChat
    \/ SettingsAddKeyword
    \/ SettingsDeleteKeyword
    \/ SettingsAddItem

SpecSession == InitSession /\ [][NextSession]_vars

\* the keywords and item numbers the inputs of the session can store
SessionKeywords == { "mug", "scarf", "" }

SessionItemNumbers == { "107114" }

\* Settings: the delete button next to keyword kw
DeleteKeyword(kw) ==
    \E i \in 1..MaxCustomKw :
        /\ i \in 1..Len(custom_exclude_keywords)
        /\ custom_exclude_keywords[i] = kw
        /\ DeleteKeywordAt(i)

OpenSettings == SelectPage /\ pc' = "settings page"

\* a user who wants a rule gone opens Settings and presses whatever removes it
SpecSessionFair ==
    /\ SpecSession
    /\ WF_vars(OpenSettings)
    /\ \A kw \in SessionKeywords : SF_vars(DeleteKeyword(kw))

-----------------------------------------------------------------------------
(* advanced_forecasting.py: the forecast methods and the ensemble.         *)

MaxHist == 3
MaxWindow == 3
MaxAhead == 2

RECURSIVE NpSum(_)
NpSum(xs) == IF Len(xs) = 0 THEN RInt(0) ELSE RAdd(Head(xs), NpSum(Tail(xs)))

\* np.mean: nan for the empty list
NpMean(xs) == IF Len(xs) = 0 THEN NaN ELSE RDiv(NpSum(xs), RInt(Len(xs)))

\* the list as floats
Floats(xs) == [ i \in 1..Len(xs) |-> RInt(xs[i]) ]

\* xs[-n:] for 1 <= n <= len(xs)
LastN(xs, n) == SubSeq(xs, Len(xs) - n + 1, Len(xs))

\* MovingAverageForecaster averaging the whole history
MovingAverageForecaster_WholeHistory(w, hist, ahead) == NpMean(Floats(hist))

\* MovingAverageForecaster(window_size = w).forecast
MovingAverageForecaster(w, hist, ahead) ==
    IF Len(hist) < w THEN NpMean(Floats(hist))
    ELSE NpMean(Floats(LastN(hist, w)))

\* np.arange(1, n + 1) / sum
NpWeights(n) == [ i \in 1..n |-> Rat(2 * i, n * (n + 1)) ]

\* np.average(xs, weights = ws) = sum(xs * ws) / sum(ws)
NpAverage(xs, ws) ==
    RDiv(NpSum([ i \in 1..Len(xs) |-> RMul(xs[i], ws[i]) ]), NpSum(ws))

\* WeightedMovingAverageForecaster(window_size = w).forecast
WeightedMovingAverageForecaster(w, hist, ahead) ==
    IF Len(hist) < w THEN NpMean(Floats(hist))
    ELSE LET recent_sales == Floats(LastN(hist, w))
         IN  NpAverage(recent_sales, NpWeights(Len(recent_sales)))

DefaultAlpha == Rat(3, 10)
DefaultBeta == Rat(1, 10)

\* the loop of ExponentialSmoothingForecaster over hist[1:]
RECURSIVE Smooth(_, _, _)
Smooth(alpha, smoothed, rest) ==
    IF Len(rest) = 0 THEN smoothed
    ELSE Smooth(alpha,
                RAdd(RMul(alpha, RInt(Head(rest))),
                     RMul(RSub(RInt(1), alpha), smoothed)),
                Tail(rest))

\* ExponentialSmoothingForecaster(alpha).forecast
ExponentialSmoothingForecaster(alpha, hist, ahead) ==
    IF Len(hist) = 0 THEN RInt(0)
    ELSE IF Len(hist) = 1 THEN RInt(hist[1])
    ELSE Smooth(alpha, RInt(hist[1]), Tail(hist))

\* the loop of HoltLinearTrendForecaster over hist[1:]: <<level, trend>>
RECURSIVE HoltLoop(_, _, _, _, _)
HoltLoop(alpha, beta, level, trend, rest) ==
    IF Len(rest) = 0 THEN << level, trend >>
    ELSE LET new_level == RAdd(RMul(alpha, RInt(Head(rest))),
                               RMul(RSub(RInt(1), alpha), RAdd(level, trend)))
             new_trend == RAdd(RMul(beta, RSub(new_level, level)),
                               RMul(RSub(RInt(1), beta), trend))
         IN  HoltLoop(alpha, beta, new_level, new_trend, Tail(rest))

\* HoltLinearTrendForecaster always forecasting one step
HoltLinearTrendForecaster_OneStep(alpha, beta, hist, ahead) ==
    IF Len(hist) < 2
    THEN (IF Len(hist) # 0 THEN NpMean(Floats(hist)) ELSE RInt(0))
    ELSE LET lt == HoltLoop(alpha, beta, RInt(hist[1]),
                            RInt(hist[2] - hist[1]), Tail(hist))
         IN  PyMax(RInt(0), RAdd(lt[1], lt[2]))

\* HoltLinearTrendForecaster(alpha, beta).forecast
HoltLinearTrendForecaster(alpha, beta, hist, ahead) ==
    IF Len(hist) < 2
    THEN (IF Len(hist) # 0 THEN NpMean(Floats(hist)) ELSE RInt(0))
    ELSE LET lt == HoltLoop(alpha, beta, RInt(hist[1]),
                            RInt(hist[2] - hist[1]), Tail(hist))
             forecast == RAdd(lt[1], RMul(RInt(ahead), lt[2]))
         IN  PyMax(RInt(0), forecast)

\* the loop of ExponentialSmoothingForecaster in binary64
RECURSIVE Smooth64(_, _, _)
Smooth64(alpha, smoothed, rest) ==
    IF Len(rest) = 0 THEN smoothed
    ELSE CHOOSE r \in
           { Smooth64(alpha, next, Tail(rest)) :
               next \in { Add64(Mul64(alpha, FromInt64(Head(rest))),
                                Mul64(Sub64(FromInt64(1), alpha), smoothed)) } } : TRUE

\* ExponentialSmoothingForecaster(alpha).forecast as computed in binary64
ExponentialSmoothingForecaster64(alpha, hist, ahead) ==
    IF Len(hist) = 0 THEN Zero64
    ELSE IF Len(hist) = 1 THEN FromInt64(hist[1])
    ELSE Smooth64(alpha, FromInt64(hist[1]), Tail(hist))

\* one pass of the loop body of HoltLinearTrendForecaster in binary64
HoltStep64(alpha, beta, level, trend, sale) ==
    CHOOSE r \in
      { << new_level,
           Add64(Mul64(beta, Sub64(new_level, level)),
                 Mul64(Sub64(FromInt64(1), beta), trend)) >> :
          new_level \in
            { Add64(Mul64(alpha, FromInt64(sale)),
                    Mul64(Sub64(FromInt64(1), alpha), Add64(level, trend))) } } : TRUE

\* the loop of HoltLinearTrendForecaster in binary64: <<level, trend>>
RECURSIVE HoltLoop64(_, _, _, _, _)
HoltLoop64(alpha, beta, level, trend, rest) ==
    IF Len(rest) = 0 THEN << level, trend >>
    ELSE CHOOSE r \in
           { HoltLoop64(alpha, beta, st[1], st[2], Tail(rest)) :
               st \in { HoltStep64(alpha, beta, level, trend, Head(rest)) } } : TRUE

\* level and trend of HoltLinearTrendForecaster at its last line, len >= 2
HoltState64(alpha, beta, hist) ==
    HoltLoop64(alpha, beta, FromInt64(hist[1]), FromInt64(hist[2] - hist[1]),
               Tail(hist))

\* HoltLinearTrendForecaster(alpha, beta).forecast as computed in binary64
HoltLinearTrendForecaster64(alpha, beta, hist, ahead) ==
    IF Len(hist) < 2
    THEN (IF Len(hist) # 0 THEN FromInt64(hist[1]) ELSE Zero64)
    ELSE CHOOSE r \in
           { Max0_64(Add64(lt[1], Mul64(FromInt64(ahead), lt[2]))) :
               lt \in { HoltState64(alpha, beta, hist) } } : TRUE

EnsembleWindow == 3

WeightRow(sma, wma, exp_smooth, holt) ==
    [ sma |-> Rat(sma, 100), wma |-> Rat(wma, 100),
      exp_smooth |-> Rat(exp_smooth, 100), holt |-> Rat(holt, 100) ]

\* EnsembleWeights with the balanced row for the other categories
EnsembleWeights_BalancedDefault(category) ==
    IF category = "Fast Mover" THEN WeightRow(15, 30, 35, 20)
    ELSE WeightRow(25, 25, 25, 25)

\* the if/elif/else on velocity_category
EnsembleWeights(category) ==
    IF category = "Fast Mover" THEN WeightRow(15, 30, 35, 20)
    ELSE IF category = "Medium Mover" THEN WeightRow(25, 25, 25, 25)
    ELSE WeightRow(40, 30, 20, 10)

MethodNames == << "sma", "wma", "exp_smooth", "holt" >>

\* EnsembleForecaster().forecast
EnsembleForecaster(hist, category, ahead) ==
    LET fc == [ sma |-> MovingAverageForecaster(EnsembleWindow, hist, ahead),
                wma |-> WeightedMovingAverageForecaster(EnsembleWindow, hist, ahead),
                exp_smooth |-> ExponentialSmoothingForecaster(DefaultAlpha, hist, ahead),
                holt |-> HoltLinearTrendForecaster(DefaultAlpha, DefaultBeta, hist, ahead) ]
        weights == EnsembleWeights(category)
        ensemble == NpSum([ i \in 1..Len(MethodNames) |->
                            RMul(fc[MethodNames[i]], weights[MethodNames[i]]) ])
    IN  [ sma |-> fc.sma, wma |-> fc.wma, exp_smooth |-> fc.exp_smooth,
          holt |-> fc.holt, ensemble |-> ensemble, recommended |-> ensemble ]

-----------------------------------------------------------------------------
(* SpecForecast: the four forecasters and the ensemble on one history.     *)

SalesQuantities == { 0, 5, 12 }
\* histories with a period of net returns (a negative quantity)
ReturnHistories == { << -5 >>, << -5, -5 >>, << -5, 12 >>, << 12, -5 >> }
Histories == ListsOf(SalesQuantities, MaxHist) \cup ReturnHistories
VelocityCategories == { "Fast Mover", "Medium Mover", "Slow Mover", "No Sales" }

InitForecast ==
    /\ CURRENT_YEAR = ScheduleYear
    /\ CURRENT_MONTH = 1
    /\ custom_exclude_keywords = << >>
    /\ custom_exclude_items = << >>
    /\ item = NoItem
    /\ reason = NoReason
    /\ sales_df = << >>
    /\ cruise_df = NoneDf
    /\ reorder_weeks = 0
    /\ safety_pct = 0
    /\ reorder_df = NoneDf
    /\ reply = NoResult
    /\ historical_sales \in Histories
    /\ velocity_category \in VelocityCategories
    /\ periods_ahead \in 1..MaxAhead
    /\ window_size \in 1..MaxWindow
    /\ methods = NoResult
    /\ methods64 = NoResult
    /\ confidence = NoResult
    /\ season_factors = << >>
    /\ target_month = 0
    /\ seasonal_forecast = NoResult
    /\ monthly_sales_history = << >>
    /\ forecasts = NoResult
    /\ pc = "forecasters"

\* each forecaster built with window_size (alpha, beta at their defaults)
RunForecasters ==
    /\ pc = "forecasters"
    /\ methods' =
          [ sma |-> MovingAverageForecaster(window_size, historical_sales, periods_ahead),
            wma |-> WeightedMovingAverageForecaster(window_size, historical_sales,
                                                    periods_ahead),
            exp_smooth |-> ExponentialSmoothingForecaster(DefaultAlpha, historical_sales,
                                                          periods_ahead),
            holt |-> HoltLinearTrendForecaster(DefaultAlpha, DefaultBeta,
                                               historical_sales, periods_ahead) ]
    /\ methods64' =
          [ exp_smooth |-> ExponentialSmoothingForecaster64(Literal64(3, 10),
                               historical_sales, periods_ahead),
            holt |-> HoltLinearTrendForecaster64(Literal64(3, 10), Literal64(1, 10),
                               historical_sales, periods_ahead),
            holt_trend |-> IF Len(historical_sales) < 2 THEN Zero64
                           ELSE HoltState64(Literal64(3, 10), Literal64(1, 10),
                                            historical_sales)[2] ]
    /\ pc' = "ensemble"
    /\ UNCHANGED <<monthly_sales_history,
                   CURRENT_YEAR, CURRENT_MONTH, custom_exclude_keywords,
                   custom_exclude_items, item, reason, sales_df, cruise_df,
                   reorder_weeks, safety_pct, reorder_df, reply,
                   historical_sales, velocity_category, periods_ahead,
                   window_size, forecasts, confidence, season_factors,
                   target_month, seasonal_forecast>>

RunEnsemble ==
    /\ pc = "ensemble"
    /\ forecasts' = EnsembleForecaster(historical_sales, velocity_category,
                                       periods_ahead)
    /\ pc' = "forecast returned"
    /\ UNCHANGED <<monthly_sales_history,
                   CURRENT_YEAR, CURRENT_MONTH, custom_exclude_keywords,
                   custom_exclude_items, item, reason, sales_df, cruise_df,
                   reorder_weeks, safety_pct, reorder_df, reply,
                   historical_sales, velocity_category, periods_ahead,
                   window_size, methods, methods64, confidence,
                   season_factors, target_month, seasonal_forecast>>

NextForecast == RunForecasters \/ RunEnsemble

SpecForecast == InitForecast /\ [][NextForecast]_vars

-----------------------------------------------------------------------------
(* SeasonalForecaster and the seasonality table of HeritageShopsForecaster. *)

nl_seasonality ==
    [mo \in 1..12 |->
        Rat(<< 4, 4, 5, 7, 9, 13, 16, 15, 12, 8, 5, 6 >>[mo], 10)]

\* get_seasonal_factor defaulting to 0
get_seasonal_factor_DefaultZero(factors, month) ==
    IF month \in DOMAIN factors THEN factors[month] ELSE RInt(0)

\* SeasonalForecaster.get_seasonal_factor: season_factors.get(month, 1.0)
get_seasonal_factor(factors, month) ==
    IF month \in DOMAIN factors THEN factors[month] ELSE RInt(1)

\* SeasonalForecaster.adjust_forecast
adjust_forecast(factors, base_forecast, month) ==
    RMul(base_forecast, get_seasonal_factor(factors, month))

-----------------------------------------------------------------------------
(* SpecSeasonal: the ensemble forecast adjusted for a target month.        *)

\* a caller's table with the summer months only
SummerOnly == [mo \in 6..8 |-> nl_seasonality[mo]]

SeasonTables == { nl_seasonality, SEASONAL_INDEX, SummerOnly }

InitSeasonal ==
    /\ CURRENT_YEAR = ScheduleYear
    /\ CURRENT_MONTH = 1
    /\ custom_exclude_keywords = << >>
    /\ custom_exclude_items = << >>
    /\ item = NoItem
    /\ reason = NoReason
    /\ sales_df = << >>
    /\ cruise_df = NoneDf
    /\ reorder_weeks = 0
    /\ safety_pct = 0
    /\ reorder_df = NoneDf
    /\ reply = NoResult
    /\ historical_sales \in Histories
    /\ velocity_category \in VelocityCategories
    /\ periods_ahead = 1
    /\ window_size = 0
    /\ methods = NoResult
    /\ methods64 = NoResult
    /\ confidence = NoResult
    /\ season_factors \in SeasonTables
    /\ target_month \in Months
    /\ seasonal_forecast = NoResult
    /\ monthly_sales_history = << >>
    /\ forecasts = NoResult
    /\ pc = "ensemble"

\* seasonal_forecast = self.seasonal.adjust_forecast(base_forecast, month)
AdjustForecast ==
    /\ pc = "forecast returned"
    /\ seasonal_forecast' = adjust_forecast(season_factors, forecasts.recommended,
                                            target_month)
    /\ pc' = "adjusted"
    /\ UNCHANGED <<monthly_sales_history,
                   CURRENT_YEAR, CURRENT_MONTH, custom_exclude_keywords,
                   custom_exclude_items, item, reason, sales_df, cruise_df,
                   reorder_weeks, safety_pct, reorder_df, reply,
                   historical_sales, velocity_category, periods_ahead,
                   window_size, methods, methods64, confidence, season_factors,
                   target_month, forecasts>>

NextSeasonal == RunEnsemble \/ AdjustForecast

SpecSeasonal == InitSeasonal /\ [][NextSeasonal]_vars

-----------------------------------------------------------------------------
(* HeritageShopsForecaster._calculate_confidence, in binary64.             *)

\* the array as float64
Floats64(xs) == [ i \in 1..Len(xs) |-> FromInt64(xs[i]) ]

\* the sum of a non-empty float64 array, left to right
RECURSIVE NpSum64(_)
NpSum64(xs) ==
    IF Len(xs) = 1 THEN xs[1]
    ELSE Add64(NpSum64(SubSeq(xs, 1, Len(xs) - 1)), xs[Len(xs)])

\* np.mean of a non-empty list
NpMean64(xs) == Div64(NpSum64(Floats64(xs)), FromInt64(Len(xs)))

\* np.std of a non-empty list: sqrt(mean(abs(x - x.mean()) ** 2))
NpStd64(xs) ==
    CHOOSE r \in
      { Sqrt64(Div64(NpSum64([ i \in 1..Len(xs) |->
                                 Mul64(Sub64(FromInt64(xs[i]), arrmean),
                                       Sub64(FromInt64(xs[i]), arrmean)) ]),
                     FromInt64(Len(xs)))) :
          arrmean \in { NpMean64(xs) } } : TRUE

\* velocity_scores.get(velocity_category, 15)
VelocityScore(category) ==
    IF category = "Fast Mover" THEN 30
    ELSE IF category = "Medium Mover" THEN 25
    ELSE IF category = "Slow Mover" THEN 15
    ELSE IF category = "Very Slow" THEN 10
    ELSE 15

\* _calculate_confidence with the fixed score below two observations
calculate_confidence_ShortBelowTwo(sales_history, category) ==
    IF Len(sales_history) < 2 THEN FromInt64(50)
    ELSE LET data_score ==
                 Min64(Mul64(Div64(FromInt64(Len(sales_history)), FromInt64(12)),
                             FromInt64(40)),
                       FromInt64(40))
             cv == Div64(NpStd64(sales_history),
                         Add64(NpMean64(sales_history), FromInt64(1)))
             variance_score ==
                 Max64(Sub64(FromInt64(30), Mul64(cv, FromInt64(10))), Zero64)
         IN  Min64(Add64(Add64(data_score, FromInt64(VelocityScore(category))),
                         variance_score),
                   FromInt64(100))

\* HeritageShopsForecaster._calculate_confidence
calculate_confidence(sales_history, category) ==
    IF Len(sales_history) < 3 THEN FromInt64(50)
    ELSE LET data_score ==
                 Min64(Mul64(Div64(FromInt64(Len(sales_history)), FromInt64(12)),
                             FromInt64(40)),
                       FromInt64(40))
             velocity_score == VelocityScore(category)
             cv == Div64(NpStd64(sales_history),
                         Add64(NpMean64(sales_history), FromInt64(1)))
             variance_score ==
                 IF Len(sales_history) > 1
                 THEN Max64(Sub64(FromInt64(30), Mul64(cv, FromInt64(10))), Zero64)
                 ELSE FromInt64(15)
             total_confidence ==
                 Add64(Add64(data_score, FromInt64(velocity_score)), variance_score)
         IN  Min64(total_confidence, FromInt64(100))

-----------------------------------------------------------------------------
(* SpecConfidence: _calculate_confidence on one history and category.      *)

ConfidenceCategories == VelocityCategories \cup { "Very Slow" }

InitConfidence ==
    /\ CURRENT_YEAR = ScheduleYear
    /\ CURRENT_MONTH = 1
    /\ custom_exclude_keywords = << >>
    /\ custom_exclude_items = << >>
    /\ item = NoItem
    /\ reason = NoReason
    /\ historical_sales \in Histories
    /\ velocity_category \in ConfidenceCategories
    /\ pc = "confidence"
    /\ sales_df = << >>
    /\ cruise_df = NoneDf
    /\ reorder_weeks = 0
    /\ safety_pct = 0
    /\ reorder_df = NoneDf
    /\ reply = NoResult
    /\ periods_ahead = 1
    /\ window_size = 0
    /\ methods = NoResult
    /\ methods64 = NoResult
    /\ confidence = NoResult
    /\ season_factors = << >>
    /\ target_month = 0
    /\ seasonal_forecast = NoResult
    /\ monthly_sales_history = << >>
    /\ forecasts = NoResult

CalculateConfidence ==
    /\ pc = "confidence"
    /\ confidence' = calculate_confidence(historical_sales, velocity_category)
    /\ pc' = "confidence returned"
    /\ UNCHANGED <<monthly_sales_history,
                   CURRENT_YEAR, CURRENT_MONTH, custom_exclude_keywords,
                   custom_exclude_items, item, reason, sales_df, cruise_df,
                   reorder_weeks, safety_pct, reorder_df, reply,
                   historical_sales, velocity_category, periods_ahead,
                   window_size, methods, methods64, forecasts, season_factors,
                   target_month, seasonal_forecast>>

NextConfidence == CalculateConfidence

SpecConfidence == InitConfidence /\ [][NextConfidence]_vars

-----------------------------------------------------------------------------
(* HeritageShopsForecaster.forecast_monthly_demand: the ensemble forecast   *)
(* of the quantities, the target month found by adding 30 days per month    *)
(* ahead to the first day of the last month of the history, the seasonal    *)
(* adjustment and the confidence.  The returned dictionary holds            *)
(* target_month as it is and base, seasonal forecast and confidence         *)
(* rounded to two decimals.                                                 *)

IsLeapYear(y) == (y % 4 = 0 /\ y % 100 # 0) \/ y % 400 = 0

DaysInMonth(y, mo) ==
    IF mo = 2 THEN (IF IsLeapYear(y) THEN 29 ELSE 28)
    ELSE IF mo \in { 4, 6, 9, 11 } THEN 30
    ELSE 31

\* (datetime(y, mo, 1) + timedelta(days = days)).month
RECURSIVE MonthAfterDays(_, _, _)
MonthAfterDays(y, mo, days) ==
    IF days < DaysInMonth(y, mo) THEN mo
    ELSE MonthAfterDays(IF mo = 12 THEN y + 1 ELSE y, (mo % 12) + 1,
                        days - DaysInMonth(y, mo))

\* a month string 'YYYY-MM'
MonthStr(y, mo) ==
    CharAt(DigitChars, ((y \div 1000) % 10) + 1)
    \o CharAt(DigitChars, ((y \div 100) % 10) + 1)
    \o CharAt(DigitChars, ((y \div 10) % 10) + 1)
    \o CharAt(DigitChars, (y % 10) + 1)
    \o "-"
    \o CharAt(DigitChars, (mo \div 10) + 1)
    \o CharAt(DigitChars, (mo % 10) + 1)

\* datetime.strptime(month_str, '%Y-%m'): the year and the month
StrpTime(month_str) ==
    [year |-> 1000 * DigitVal(CharAt(month_str, 1))
              + 100 * DigitVal(CharAt(month_str, 2))
              + 10 * DigitVal(CharAt(month_str, 3))
              + DigitVal(CharAt(month_str, 4)),
     month |-> 10 * DigitVal(CharAt(month_str, 6)) + DigitVal(CharAt(month_str, 7))]

\* [qty for _, qty in monthly_sales_history]
Quantities(history) == [k \in 1..Len(history) |-> history[k][2]]

TargetMonthNum(history, months_ahead) ==
    IF Len(history) > 0
    THEN LET last_month == StrpTime(history[Len(history)][1])
         IN  MonthAfterDays(last_month.year, last_month.month, 30 * months_ahead)
    ELSE CURRENT_MONTH

\* the month string k months before (y, mo)
MonthBefore(y, mo, k) ==
    LET idx == 12 * y + (mo - 1) - k
    IN  MonthStr(idx \div 12, (idx % 12) + 1)

\* consecutive months ending with (y, mo), one quantity each
MonthlyHistory(qs, y, mo) ==
    [k \in 1..Len(qs) |-> << MonthBefore(y, mo, Len(qs) - k), qs[k] >>]

MonthlyQuantities == { << 5 >>, << 5, 12 >>, << 12, 5, 0 >> }

\* a year without and a year with a 29th of February
HistoryYears == { 2023, 2024 }

MonthlyHistories ==
    { << >> } \cup { MonthlyHistory(qs, y, mo) :
                        qs \in MonthlyQuantities, y \in HistoryYears, mo \in Months }

InitMonthly ==
    /\ CURRENT_YEAR = ScheduleYear
    /\ CURRENT_MONTH \in { 1, 7 }
    /\ custom_exclude_keywords = << >>
    /\ custom_exclude_items = << >>
    /\ item = NoItem
    /\ reason = NoReason
    /\ sales_df = << >>
    /\ cruise_df = NoneDf
    /\ reorder_weeks = 0
    /\ safety_pct = 0
    /\ reorder_df = NoneDf
    /\ reply = NoResult
    /\ historical_sales = << >>
    /\ velocity_category \in { "Fast Mover", "Slow Mover" }
    /\ periods_ahead \in 1..MaxAhead
    /\ window_size = 0
    /\ methods = NoResult
    /\ methods64 = NoResult
    /\ confidence = NoResult
    /\ season_factors = nl_seasonality
    /\ target_month = 0
    /\ seasonal_forecast = NoResult
    /\ monthly_sales_history \in MonthlyHistories
    /\ forecasts = NoResult
    /\ pc = "monthly"

ForecastMonthlyDemand ==
    /\ pc = "monthly"
    /\ \E quantities \in { Quantities(monthly_sales_history) } :
       \E base_forecasts \in { EnsembleForecaster(quantities, velocity_category,
                                                  periods_ahead) } :
       \E target_month_num \in { TargetMonthNum(monthly_sales_history,
                                                periods_ahead) } :
           /\ historical_sales' = quantities
           /\ forecasts' = base_forecasts
           /\ target_month' = target_month_num
           /\ seasonal_forecast' = adjust_forecast(season_factors,
                                                   base_forecasts.recommended,
                                                   target_month_num)
           /\ confidence' = calculate_confidence(quantities, velocity_category)
    /\ pc' = "monthly returned"
    /\ UNCHANGED <<CURRENT_YEAR, CURRENT_MONTH, custom_exclude_keywords,
                   custom_exclude_items, item, reason, sales_df, cruise_df,
                   reorder_weeks, safety_pct, reorder_df, reply,
                   velocity_category, periods_ahead, window_size, methods,
                   methods64, season_factors, monthly_sales_history>>

NextMonthly == ForecastMonthlyDemand

SpecMonthly == InitMonthly /\ [][NextMonthly]_vars

-----------------------------------------------------------------------------
(* Properties of the exclusion-rule evaluator (SpecExclusion).             *)

Returned == pc = "returned"

\* the five rules, as the specification words them, for a row it
IdApplies(it) ==
    \E i \in 1..Len(custom_exclude_items) : custom_exclude_items[i] = it.ItemNumber

KwApplies(it) ==
    \/ \E i \in 1..Len(custom_exclude_keywords) :
          StrIn(Lower(custom_exclude_keywords[i]), Lower(it.Description))
    \/ \E i \in 1..Len(EXCLUDE_KEYWORDS) :
          StrIn(Lower(EXCLUDE_KEYWORDS[i]), Lower(it.Description))

HasDatedKw(it) ==
    \E kw \in { "calendar", "planner", "diary", "agenda", "almanac" } :
        StrIn(kw, Lower(it.Description))

DatedRuleApplies(it) ==
    /\ HasDatedKw(it)
    /\ YearSearch(it.Description) # NoYear
    /\ \/ YearSearch(it.Description) < CURRENT_YEAR
       \/ YearSearch(it.Description) = CURRENT_YEAR /\ CURRENT_MONTH > 3

ItemIdApplies == IdApplies(item)
KeywordApplies == KwApplies(item)
HasDatedKeyword == HasDatedKw(item)
ItemYear == YearSearch(item.Description)
DatedApplies == DatedRuleApplies(item)
MarginApplies == item.Margin < 0
ZeroSalesApplies == item.NumberSold = 0

FirstApplicableKinds ==
    IF ItemIdApplies THEN { "Manually excluded" }
    ELSE IF KeywordApplies THEN { "Service/excluded keyword" }
    ELSE IF DatedApplies THEN { "Dated item", "season passed" }
    ELSE IF MarginApplies THEN { "Negative margin" }
    ELSE IF ZeroSalesApplies THEN { "Zero sales" }
    ELSE { "None" }

\* C1: get_exclusion_reason returns the reason of the first rule that
\* applies, in the order item id, keyword, dated item, negative margin, zero
\* sales, and None only when none of the five applies; a keyword match with a
\* negative margin gives the keyword reason.
C1_ExclusionPrecedence ==
    Returned =>
        /\ reason.kind \in FirstApplicableKinds
        /\ (reason = NoReason) <=>
              ~(ItemIdApplies \/ KeywordApplies \/ DatedApplies
                  \/ MarginApplies \/ ZeroSalesApplies)

C1_Witness ==
    /\ Returned
    /\ ~ItemIdApplies
    /\ \E i \in 1..Len(custom_exclude_keywords) :
          /\ custom_exclude_keywords[i] # ""
          /\ StrIn(custom_exclude_keywords[i], Lower(item.Description))
    /\ item.Margin < 0
    /\ reason.kind = "Service/excluded keyword"

\* the four characters of a year
DigitText(d) == CharAt(DigitChars, d + 1)

YearText(y) ==
    DigitText((y \div 1000) % 10) \o DigitText((y \div 100) % 10)
    \o DigitText((y \div 10) % 10) \o DigitText(y % 10)

\* C2 as stated: every item whose description contains a dated keyword and the
\* four digits of current_year - 1 gets a reason, in every month.
C2_Original ==
    (Returned /\ HasDatedKeyword
        /\ StrIn(YearText(CURRENT_YEAR - 1), item.Description))
    => reason # NoReason

\* C2 (amended): every item whose description contains a dated keyword and
\* whose first year token (20xx between word boundaries) is current_year - 1
\* gets a reason, in every month and for every margin, units sold and rule-set.
C2_DatedLastYearExcluded ==
    (Returned /\ HasDatedKeyword /\ ItemYear = CURRENT_YEAR - 1)
    => reason # NoReason

C2_Witness ==
    /\ Returned
    /\ HasDatedKeyword
    /\ ItemYear = CURRENT_YEAR - 1
    /\ CURRENT_MONTH <= 3
    /\ item.Margin >= 0
    /\ item.NumberSold > 0
    /\ reason = DatedReason(CURRENT_YEAR - 1)

HasFourDigits ==
    \E i \in 1..(Len(item.Description) - 3) :
        \A k \in 0..3 : IsDigit(CharAt(item.Description, i + k))

NotDatedCase ==
    \/ ~HasFourDigits
    \/ ItemYear # NoYear /\ ItemYear > CURRENT_YEAR
    \/ ItemYear = CURRENT_YEAR /\ CURRENT_MONTH <= 3

-----------------------------------------------------------------------------
(* Properties of the reorder engine and the chat agent (SpecReorder).      *)

\* the reorder list has just been built from the current inputs
Built == pc = "chat page"

Rows == 1..Len(reorder_df)

ExcludedRow(i) ==
    get_exclusion_reason(sales_df[i].Description, sales_df[i].ItemNumber,
                         sales_df[i].Margin, sales_df[i].NumberSold,
                         custom_exclude_keywords, custom_exclude_items) # NoReason

TierOf(excluded, suggested) ==
    IF excluded THEN "EXCLUDED"
    ELSE IF suggested >= 8 THEN "URGENT"
    ELSE IF suggested >= 3 THEN "WARNING"
    ELSE "OK"

\* C4: every item gets exactly one tier: EXCLUDED iff get_exclusion_reason
\* returned a reason, else URGENT from 8 units, WARNING from 3 to 7, OK below 3.
C4_PriorityTiers ==
    Built =>
        /\ Len(reorder_df) = Len(sales_df)
        /\ \A i \in Rows :
              /\ reorder_df[i].Priority
                    = TierOf(ExcludedRow(i), reorder_df[i].SuggestedOrderQty)
              /\ (reorder_df[i].Priority = "EXCLUDED")
                    <=> (reorder_df[i].ExclusionReason # EmptyText)

C4_Witness ==
    /\ Built
    /\ \E i, j \in Rows :
          /\ reorder_df[i].Priority = "URGENT"
          /\ reorder_df[i].SuggestedOrderQty = 8
          /\ reorder_df[j].Priority = "EXCLUDED"
          /\ reorder_df[j].SuggestedOrderQty >= 8

\* C5: an item with units sold = 0, no id or keyword match, no dated-rule
\* match and margin >= 0 gets the zero-sales reason and priority EXCLUDED.
C5_ZeroSalesExcluded ==
    Built =>
        \A i \in Rows :
            (/\ sales_df[i].NumberSold = 0
             /\ sales_df[i].Margin >= 0
             /\ ~IdApplies(sales_df[i])
             /\ ~KwApplies(sales_df[i])
             /\ ~DatedRuleApplies(sales_df[i]))
            => /\ reorder_df[i].ExclusionReason.kind = "Zero sales"
               /\ reorder_df[i].Priority = "EXCLUDED"

C5_Witness ==
    /\ Built
    /\ \E i \in Rows :
          /\ sales_df[i].NumberSold = 0
          /\ sales_df[i].Margin = 500
          /\ ~IdApplies(sales_df[i]) /\ ~KwApplies(sales_df[i])
          /\ reorder_df[i].ExclusionReason = ZeroSalesReason
          /\ reorder_df[i].Priority = "EXCLUDED"

\* forecast + safety of row i: avg_weekly x reorder_weeks x seasonal x event,
\* plus safety_pct percent of it
OrderBasis(i) ==
    LET avg == RDiv(RInt(sales_df[i].NumberSold), PyMax(sales_df[1].ActualWeeks, RInt(1)))
        f == RMul(RMul(RMul(avg, RInt(reorder_weeks)), reorder_df[i].SeasonalIdx),
                  reorder_df[i].CruiseMultiplier)
    IN  RMul(f, Rat(100 + safety_pct, 100))

\* n is max(1, x rounded to a nearest integer)
IsRoundedFloorOne(n, x) ==
    IF RLess(x, Rat(3, 2)) THEN n = 1
    ELSE /\ RLeq(RSub(x, Rat(1, 2)), RInt(n))
         /\ RLeq(RInt(n), RAdd(x, Rat(1, 2)))

\* C6: the suggested order is max(1, round(forecast + safety)) with forecast =
\* avg_weekly x reorder_weeks x seasonal x event and safety = forecast x
\* safety_pct / 100, so it is >= 1 for every item; window 4, safety 15%,
\* average 10, seasonal 1.0, event 1.0 give forecast 40, safety 6, order 46.
C6_SuggestedOrder ==
    /\ Built =>
          \A i \in Rows :
              /\ reorder_df[i].SuggestedOrderQty >= 1
              /\ IsRoundedFloorOne(reorder_df[i].SuggestedOrderQty, OrderBasis(i))
    /\ LET f == ForecastQty(RInt(10), 4, RInt(1), RInt(1))
           sf == SafetyStock(f, 15)
       IN  f = RInt(40) /\ sf = RInt(6) /\ SuggestedOrder(f, sf) = 46

C6_Witness ==
    /\ Built
    /\ reorder_weeks = 4
    /\ safety_pct = 15
    /\ \E i, j \in Rows :
          /\ sales_df[i].NumberSold = 0
          /\ reorder_df[i].SuggestedOrderQty = 1
          /\ AvgWeekly(sales_df[j].NumberSold, safe_weeks(sales_df)) = RInt(10)
          /\ reorder_df[j].SuggestedOrderQty > 1

RECURSIVE SumNotExcluded(_)
SumNotExcluded(rdf) ==
    IF Len(rdf) = 0 THEN 0
    ELSE (IF Head(rdf).Priority = "EXCLUDED" THEN 0 ELSE Head(rdf).SuggestedOrderQty)
         + SumNotExcluded(Tail(rdf))

\* C7: the suggested order of an EXCLUDED item is ignored downstream: the
\* summary's total units to order counts the non-excluded items only.
C7_ExcludedIgnoredInTotal ==
    (pc = "answered" /\ reply.kind = "summary")
    => reply.total = SumNotExcluded(reorder_df)

-----------------------------------------------------------------------------
(* Properties of the forecast methods and the ensemble (SpecForecast).     *)

ForecastReturned == pc = "forecast returned"
ForecastersReturned == pc \in { "ensemble", "forecast returned" }

\* the weight row the specification gives for a category, in hundredths
ClaimedRow(category) ==
    IF category = "Fast Mover" THEN << 15, 30, 35, 20 >>
    ELSE IF category = "Medium Mover" THEN << 25, 25, 25, 25 >>
    ELSE << 40, 30, 20, 10 >>

ClaimedSum(f, row) ==
    RAdd(RAdd(RAdd(RMul(f.sma, Rat(row[1], 100)), RMul(f.wma, Rat(row[2], 100))),
              RMul(f.exp_smooth, Rat(row[3], 100))),
         RMul(f.holt, Rat(row[4], 100)))

\* C8: EnsembleForecaster.forecast returns sma, wma, exp_smooth and holt plus
\* ensemble = sum of value x weight with the row of the category (Fast Mover
\* 0.15/0.30/0.35/0.20, Medium Mover 0.25 each, any other 0.40/0.30/0.20/0.10);
\* each row sums to 1 and recommended = ensemble.  (An undefined method value
\* makes the sum, and so the ensemble, undefined.)
C8_EnsembleWeights ==
    ForecastReturned =>
        LET row == ClaimedRow(velocity_category)
        IN  /\ DOMAIN forecasts
                 = { "sma", "wma", "exp_smooth", "holt", "ensemble", "recommended" }
            /\ forecasts.sma
                 = MovingAverageForecaster(3, historical_sales, periods_ahead)
            /\ forecasts.wma
                 = WeightedMovingAverageForecaster(3, historical_sales, periods_ahead)
            /\ forecasts.exp_smooth
                 = ExponentialSmoothingForecaster(Rat(3, 10), historical_sales,
                                                  periods_ahead)
            /\ forecasts.holt
                 = HoltLinearTrendForecaster(Rat(3, 10), Rat(1, 10), historical_sales,
                                             periods_ahead)
            /\ forecasts.ensemble = ClaimedSum(forecasts, row)
            /\ forecasts.recommended = forecasts.ensemble
            /\ row[1] + row[2] + row[3] + row[4] = 100
            /\ LET w == EnsembleWeights(velocity_category)
               IN  RAdd(RAdd(w.sma, w.wma), RAdd(w.exp_smooth, w.holt)) = RInt(1)

C8_Witness ==
    /\ ForecastReturned
    /\ velocity_category = "No Sales"
    /\ historical_sales = << 0, 5, 12 >>
    /\ ~IsNaN(forecasts.ensemble)
    /\ forecasts.sma # forecasts.wma
    /\ forecasts.exp_smooth # forecasts.holt
    /\ forecasts.ensemble = ClaimedSum(forecasts, << 40, 30, 20, 10 >>)
    /\ forecasts.ensemble # ClaimedSum(forecasts, << 25, 25, 25, 25 >>)

Defined(f) ==
    ~IsNaN(f.sma) /\ ~IsNaN(f.wma) /\ ~IsNaN(f.exp_smooth) /\ ~IsNaN(f.holt)

\* C9: for the empty history and every history shorter than the window, SMA,
\* WMA, exponential smoothing, Holt and the ensemble return a defined number.
C9_ShortHistoryDefined ==
    /\ (ForecastersReturned /\ Len(historical_sales) < window_size)
          => Defined(methods)
    /\ (ForecastReturned /\ Len(historical_sales) < 3)
          => Defined(forecasts) /\ ~IsNaN(forecasts.ensemble)

RECURSIVE SumInts(_)
SumInts(xs) == IF Len(xs) = 0 THEN 0 ELSE Head(xs) + SumInts(Tail(xs))

\* sum of i x (the i-th of the last w values), i = 1..w
RECURSIVE RampSum(_, _)
RampSum(xs, w) ==
    IF w = 0 THEN 0 ELSE w * xs[Len(xs)] + RampSum(SubSeq(xs, 1, Len(xs) - 1), w - 1)

\* C10: for a history shorter than the window W, SMA and WMA both equal the
\* arithmetic mean of the whole history (undefined, like the mean, when the
\* history is empty); from length W on, SMA is the mean of the last W values
\* and WMA their weighted average with weights i / (1 + ... + W).
C10_MovingAverages ==
    ForecastersReturned =>
        LET n == Len(historical_sales)
            W == window_size
        IN  IF n = 0 THEN IsNaN(methods.sma) /\ IsNaN(methods.wma)
            ELSE IF n < W
            THEN /\ methods.sma = Rat(SumInts(historical_sales), n)
                 /\ methods.wma = Rat(SumInts(historical_sales), n)
            ELSE /\ methods.sma
                      = Rat(SumInts(SubSeq(historical_sales, n - W + 1, n)), W)
                 /\ methods.wma
                      = Rat(RampSum(historical_sales, W), SumInts([ i \in 1..W |-> i ]))

C10_Witness ==
    /\ ForecastersReturned
    /\ \/ /\ historical_sales = << 12, 0, 5 >>
          /\ window_size = 2
          /\ methods.sma = Rat(5, 2)
          /\ methods.wma = Rat(10, 3)
       \/ /\ historical_sales = << 12, 5 >>
          /\ window_size = 3
          /\ methods.sma = Rat(17, 2)
          /\ methods.wma = Rat(17, 2)

IsConstant(h) == Len(h) > 0 /\ \A i \in 1..Len(h) : h[i] = h[1]

\* C11: for a constant non-empty history [c, ..., c], c >= 0, SMA, WMA,
\* exponential smoothing and Holt all return c for every periods_ahead >= 1,
\* and Holt's trend is 0.
C11_ConstantHistory ==
    (ForecastersReturned /\ IsConstant(historical_sales)) =>
        LET c == historical_sales[1]
        IN  /\ methods.sma = RInt(c)
            /\ methods.wma = RInt(c)
            /\ methods64.exp_smooth = FromInt64(c)
            /\ methods64.holt = FromInt64(c)
            /\ methods64.holt_trend = Zero64

NonNegative64(x) == Len(x.m) = 0 \/ x.s = 0

\* C12: HoltLinearTrendForecaster.forecast never returns a negative number,
\* for any history (of any length, 0 and 1 included) and any periods_ahead.
C12_HoltNeverNegative ==
    ForecastersReturned =>
        /\ RLeq(RInt(0), methods.holt)
        /\ NonNegative64(methods64.holt)

\* the same for histories of at least two observations or without a
\* negative quantity
C12_HoltClampedFromTwo ==
    (/\ ForecastersReturned
     /\ \/ Len(historical_sales) >= 2
        \/ \A i \in 1..Len(historical_sales) : historical_sales[i] >= 0)
    => /\ RLeq(RInt(0), methods.holt)
       /\ NonNegative64(methods64.holt)

\* level and trend after the observations v[k..], as the specification
\* states the update, alpha = 0.3 and beta = 0.1
RECURSIVE LevelTrend(_, _, _, _)
LevelTrend(level, trend, v, k) ==
    IF k > Len(v) THEN << level, trend >>
    ELSE LET new_level == RAdd(RMul(Rat(3, 10), RInt(v[k])),
                               RMul(Rat(7, 10), RAdd(level, trend)))
         IN  LevelTrend(new_level,
                        RAdd(RMul(Rat(1, 10), RSub(new_level, level)),
                             RMul(Rat(9, 10), trend)),
                        v, k + 1)

ClampedAt0(x) == IF RLess(x, RInt(0)) THEN RInt(0) ELSE x

\* C13: for a history of length >= 2 Holt's forecast is max(0, level +
\* periods_ahead x trend), level starting as the first value, trend as second
\* minus first, each observation from the second on updating new_level =
\* alpha v + (1 - alpha)(level + trend), trend = beta (new_level - level) +
\* (1 - beta) trend; SMA, WMA and exponential smoothing do not depend on
\* periods_ahead.
C13_HoltFormula ==
    ForecastersReturned =>
        /\ Len(historical_sales) >= 2 =>
              LET lt == LevelTrend(RInt(historical_sales[1]),
                                   RInt(historical_sales[2] - historical_sales[1]),
                                   historical_sales, 2)
              IN  methods.holt
                    = ClampedAt0(RAdd(lt[1], RMul(RInt(periods_ahead), lt[2])))
        /\ \A p \in 1..(MaxAhead + 1) :
              /\ methods.sma
                    = MovingAverageForecaster(window_size, historical_sales, p)
              /\ methods.wma
                    = WeightedMovingAverageForecaster(window_size, historical_sales, p)
              /\ methods.exp_smooth
                    = ExponentialSmoothingForecaster(DefaultAlpha, historical_sales, p)
              /\ methods64.exp_smooth
                    = ExponentialSmoothingForecaster64(Literal64(3, 10),
                                                       historical_sales, p)

C13_Witness ==
    /\ ForecastersReturned
    /\ historical_sales = << 0, 5, 12 >>
    /\ periods_ahead = 2
    /\ RLess(RInt(0), methods.holt)
    /\ methods.holt
         # HoltLinearTrendForecaster(DefaultAlpha, DefaultBeta, historical_sales, 1)

-----------------------------------------------------------------------------
(* Properties of the confidence score (SpecConfidence).                    *)

ConfidenceReturned == pc = "confidence returned"

Leq64(x, y) == ~Less64(y, x)

\* C14: _calculate_confidence returns a value within [0, 100] for every
\* history of non-negative quantities and every velocity category, known or
\* not, and exactly 50.0 for a history of 0, 1 or 2 observations.
C14_ConfidenceRange ==
    ConfidenceReturned =>
        /\ (\A i \in 1..Len(historical_sales) : historical_sales[i] >= 0)
              => /\ Leq64(FromInt64(0), confidence)
                 /\ Leq64(confidence, FromInt64(100))
        /\ Len(historical_sales) < 3 => confidence = FromInt64(50)

C14_Witness ==
    /\ ConfidenceReturned
    /\ historical_sales = << 0, 5, 12 >>
    /\ velocity_category = "No Sales"
    /\ confidence # FromInt64(50)
    /\ Less64(FromInt64(0), confidence)
    /\ Less64(confidence, FromInt64(100))

-----------------------------------------------------------------------------
(* Properties of the seasonal adjustment (SpecSeasonal).                   *)

Adjusted == pc = "adjusted"

\* C15: the seasonal adjuster returns base_forecast x SeasonalIndex[month]
\* for a month of the table and base_forecast x 1.0 for a month absent from
\* it; with the July index 1.6 the ensemble value is scaled by exactly 1.6;
\* both built-in tables have a positive entry for every month 1..12.
C15_SeasonalAdjust ==
    /\ Adjusted =>
          /\ target_month \in DOMAIN season_factors
                => seasonal_forecast
                     = RMul(forecasts.ensemble, season_factors[target_month])
          /\ target_month \notin DOMAIN season_factors
                => seasonal_forecast = forecasts.ensemble
          /\ (season_factors = nl_seasonality /\ target_month = 7)
                => seasonal_forecast = RMul(forecasts.ensemble, Rat(16, 10))
    /\ \A mo \in 1..12 :
          /\ mo \in DOMAIN nl_seasonality /\ RLess(RInt(0), nl_seasonality[mo])
          /\ mo \in DOMAIN SEASONAL_INDEX /\ RLess(RInt(0), SEASONAL_INDEX[mo])
          /\ SeasonalGet(mo) = SEASONAL_INDEX[mo]

C15_Witness ==
    /\ Adjusted
    /\ season_factors = nl_seasonality
    /\ target_month = 7
    /\ historical_sales = << 0, 5, 12 >>
    /\ seasonal_forecast = RMul(forecasts.ensemble, Rat(16, 10))
    /\ seasonal_forecast # forecasts.ensemble

\* the passenger total build_reorder sums for its month key nm
SelectedPax ==
    IF cruise_df = NoneDf THEN 0
    ELSE SumInts([k \in 1..Len(cruise_df) |->
                     IF cruise_df[k].Month = << CURRENT_YEAR, NextMonth >>
                     THEN cruise_df[k].Passengers ELSE 0])

BandOf(pax) ==
    CASE pax > 5000 -> Rat(135, 100)
      [] pax > 2000 /\ pax <= 5000 -> Rat(120, 100)
      [] pax > 0 /\ pax <= 2000 -> Rat(110, 100)
      [] pax = 0 -> RInt(1)

\* C16: in build_reorder the cruise multiplier is 1.35 for a passenger total
\* above 5000, 1.20 above 2000 up to 5000, 1.10 above 0 up to 2000, and 1.0
\* for a total of 0 or without a schedule; exactly 5000 gives 1.20 and exactly
\* 2000 gives 1.10; the forecast is the weekly average times the weeks times
\* the seasonal index times the multiplier.
C16_CruiseBands ==
    Built =>
       \A i \in Rows :
           /\ reorder_df[i].CruiseMultiplier = BandOf(SelectedPax)
           /\ cruise_df = NoneDf => reorder_df[i].CruiseMultiplier = RInt(1)
           /\ SelectedPax = 5000 => reorder_df[i].CruiseMultiplier = Rat(120, 100)
           /\ SelectedPax = 2000 => reorder_df[i].CruiseMultiplier = Rat(110, 100)
           /\ reorder_df[i].ForecastQuantity =
                 PyRoundTo(RMul(RMul(RMul(AvgWeekly(sales_df[i].NumberSold,
                                                    safe_weeks(sales_df)),
                                          RInt(reorder_weeks)),
                                     SeasonalGet(NextMonth)),
                                BandOf(SelectedPax)), 1)

C16_Witness ==
    /\ Built
    /\ SelectedPax = 5000
    /\ \E i \in Rows :
          /\ reorder_df[i].CruiseMultiplier = Rat(120, 100)
          /\ sales_df[i].NumberSold > 0
          /\ reorder_df[i].SeasonalIdx # RInt(1)

\* the calendar month immediately following the current one
FollowingMonth ==
    << IF CURRENT_MONTH = 12 THEN CURRENT_YEAR + 1 ELSE CURRENT_YEAR,
       IF CURRENT_MONTH = 12 THEN 1 ELSE CURRENT_MONTH + 1 >>

PaxOfMonth(ym) ==
    IF cruise_df = NoneDf THEN 0
    ELSE SumInts([k \in 1..Len(cruise_df) |->
                     IF cruise_df[k].Month = ym THEN cruise_df[k].Passengers ELSE 0])

\* C17: the passenger total that selects the cruise multiplier is the sum over
\* the sailings of the calendar month (year and month) following the current
\* one, for each current month 1..12, December included (January of the
\* following year), and the seasonal index applied is that of the same month.
C17_TargetMonth ==
    Built =>
       \A i \in Rows :
           /\ SelectedPax = PaxOfMonth(FollowingMonth)
           /\ reorder_df[i].CruiseMultiplier = BandOf(PaxOfMonth(FollowingMonth))
           /\ reorder_df[i].SeasonalIdx = SEASONAL_INDEX[FollowingMonth[2]]

\* the part of C17 that holds: for the current months 1..11 the total is that
\* of the following calendar month
C17_TargetMonthBeforeDecember ==
    (Built /\ CURRENT_MONTH < 12) =>
       \A i \in Rows :
           /\ SelectedPax = PaxOfMonth(FollowingMonth)
           /\ reorder_df[i].CruiseMultiplier = BandOf(PaxOfMonth(FollowingMonth))
           /\ reorder_df[i].SeasonalIdx = SEASONAL_INDEX[FollowingMonth[2]]

\* the built-in keywords as the specification lists them
BuiltInKeywords ==
    << "shipping charges", "environmental charge", "gift card",
       "gift certificate", "poster tube", "st-receive",
       "clearance", "discontinued", "out of print" >>

\* one description per built-in keyword, in the same order
BuiltInDescriptions ==
    << "SHIPPING CHARGES", "Environmental Charge", "GIFT CARD 25",
       "Gift Certificate 50", "Poster Tube L", "ST-RECEIVE",
       "Clearance Scarf", "Discontinued Mug", "Out Of Print Book" >>

CustomKwApplies(desc) ==
    \E k \in 1..Len(custom_exclude_keywords) :
        StrIn(custom_exclude_keywords[k], Lower(desc))

\* C18: after any sequence of the rule-set operations of a session (Settings:
\* add keyword, delete keyword, add item number; chat: exclude 'keyword') each
\* built-in keyword is still in effect: an item whose description contains it
\* is excluded by get_exclusion_reason, with the built-in keyword as the reason
\* when no custom rule applies to the item, and the built-in list is unchanged.
C18_BuiltInsStay ==
    /\ EXCLUDE_KEYWORDS = BuiltInKeywords
    /\ \A i \in 1..Len(BuiltInKeywords) : \A num \in { "107114", "200300" } :
          LET r == get_exclusion_reason(BuiltInDescriptions[i], num, 500, 3,
                                        custom_exclude_keywords, custom_exclude_items)
          IN  /\ StrIn(BuiltInKeywords[i], Lower(BuiltInDescriptions[i]))
              /\ r # NoReason
              /\ (~InList(num, custom_exclude_items)
                    /\ ~CustomKwApplies(BuiltInDescriptions[i]))
                    => r = KeywordReason(BuiltInKeywords[i])
    /\ reorder_df # NoneDf =>
          \A i \in Rows : StrIn("gift card", Lower(reorder_df[i].Description))
                              => reorder_df[i].Priority = "EXCLUDED"
    /\ (reply # NoResult /\ reply.kind = "rules")
          => SubSeq(reply.rows, 1, Len(BuiltInKeywords)) = BuiltInKeywords

C18_Witness ==
    /\ reply # NoResult
    /\ reply.kind = "rule added"
    /\ reply.text = "scarf"
    /\ ~InList("scarf", custom_exclude_keywords)
    /\ InList("mug", custom_exclude_keywords)
    /\ InList("107114", custom_exclude_items)
    /\ get_exclusion_reason("GIFT CARD 25", "200300", 500, 3,
                            custom_exclude_keywords, custom_exclude_items)
          = KeywordReason("gift card")

\* C19: every user-added rule, a custom keyword as well as a custom item
\* number, can be removed again: whenever it is present, the user who sets out
\* to remove it reaches a state where it is absent from the rule-set and
\* excludes no item.
C19_UserRulesRemovable ==
    /\ \A kw \in SessionKeywords :
          InList(kw, custom_exclude_keywords)
             ~> (/\ ~InList(kw, custom_exclude_keywords)
                 /\ get_exclusion_reason("Puffin Mug", "999999", 500, 3,
                                         custom_exclude_keywords,
                                         custom_exclude_items)
                       # KeywordReason(kw))
    /\ \A num \in SessionItemNumbers :
          InList(num, custom_exclude_items)
             ~> (/\ ~InList(num, custom_exclude_items)
                 /\ get_exclusion_reason("Lapel Pin", num, 500, 3,
                                         custom_exclude_keywords,
                                         custom_exclude_items) = NoReason)

\* the part of C19 that holds: a custom keyword can be removed again
C19_KeywordsRemovable ==
    \A kw \in SessionKeywords :
        InList(kw, custom_exclude_keywords)
           ~> (/\ ~InList(kw, custom_exclude_keywords)
               /\ get_exclusion_reason("Puffin Mug", "999999", 500, 3,
                                       custom_exclude_keywords,
                                       custom_exclude_items)
                     # KeywordReason(kw))

\* no operation of the session takes an item number out of the custom list
C19_ItemNumbersStay ==
    [][\A num \in SessionItemNumbers :
          InList(num, custom_exclude_items) => InList(num, custom_exclude_items')]_vars

\* an exclude/block/remove/never-suggest command with a quoted keyword
QuotedExcludeCommand(m) ==
    LET msg == Strip(Lower(m))
    IN  /\ AnyIn({ "exclude", "block", "remove", "never suggest" }, msg)
        /\ HasQuoted(msg)

\* C20: the rule-set changes only through an explicit add or remove:
\* build_reorder, and get_exclusion_reason which it calls for each row, leave
\* the custom keywords, the custom item numbers and the item table unchanged;
\* in agent_respond only an exclude/block/remove/never-suggest command with a
\* quoted keyword changes the custom keywords, and no chat command changes
\* the custom item numbers.
C20_RuleSetFrame ==
    [][/\ sales_df' = sales_df
       /\ pc = "forecast page" =>
             /\ custom_exclude_keywords' = custom_exclude_keywords
             /\ custom_exclude_items' = custom_exclude_items
       /\ pc = "chat page" =>
             /\ custom_exclude_items' = custom_exclude_items
             /\ custom_exclude_keywords' # custom_exclude_keywords =>
                   \E m \in SessionMessages :
                       /\ QuotedExcludeCommand(m)
                       /\ custom_exclude_keywords' =
                             Append(custom_exclude_keywords,
                                    Lower(Quoted(Strip(Lower(m)))))
                       /\ reply'.kind = "rule added"
       /\ (custom_exclude_keywords' # custom_exclude_keywords
             \/ custom_exclude_items' # custom_exclude_items)
             => pc \in { "settings page", "chat page" }]_vars

C20_Witness ==
    /\ pc = "chat page"
    /\ reorder_df = build_reorder(sales_df, cruise_df, reorder_weeks, safety_pct,
                                  custom_exclude_keywords, custom_exclude_items)
    /\ reply # NoResult
    /\ reply.kind = "put the keyword in quotes"
    /\ custom_exclude_keywords = << "scarf" >>
    /\ custom_exclude_items = << "107114" >>

\* the decision build_reorder takes for row i when it is the only row
AloneRow(i) ==
    build_reorder(<< sales_df[i] >>, cruise_df, reorder_weeks, safety_pct,
                  custom_exclude_keywords, custom_exclude_items)[1]

OneWindow(df) == \A i, j \in 1..Len(df) : df[i].ActualWeeks = df[j].ActualWeeks

\* C21: build_reorder produces one decision per input item, in input order,
\* and each item's decision (average weekly demand, forecast, suggested order,
\* velocity, priority, exclusion reason) is the same whatever other rows are
\* in the table and whatever their order: it is the decision for the item alone.
C21_ItemsIndependent ==
    Built =>
       /\ Len(reorder_df) = Len(sales_df)
       /\ \A i \in Rows :
             /\ reorder_df[i].ItemNum = sales_df[i].ItemNumber
             /\ reorder_df[i] = AloneRow(i)

\* the part of C21 that holds: one decision per item, in input order, with
\* the exclusion reason of the item alone; the whole decision is that of the
\* item alone when all rows share one report window
C21_OnePerItemInOrder ==
    Built =>
       /\ Len(reorder_df) = Len(sales_df)
       /\ \A i \in Rows :
             /\ reorder_df[i].ItemNum = sales_df[i].ItemNumber
             /\ reorder_df[i].ExclusionReason = AloneRow(i).ExclusionReason
             /\ OneWindow(sales_df) => reorder_df[i] = AloneRow(i)

\* C23: every item's average weekly demand is its units sold divided by
\* max(1, weeks of the report window of the file the item came from), also
\* when branches with different windows are combined; 52 weeks when no date
\* range was parsed.
C23_OwnReportWindow ==
    Built =>
       \A i \in Rows :
           reorder_df[i].AvgWeek =
              PyRoundTo(RDiv(RInt(sales_df[i].NumberSold),
                             PyMax(sales_df[i].ActualWeeks, RInt(1))), 2)

\* the part of C23 that holds: the divisor is max(1, weeks of the first row)
C23_FirstRowWindow ==
    Built =>
       \A i \in Rows :
           /\ reorder_df[i].AvgWeek =
                 PyRoundTo(RDiv(RInt(sales_df[i].NumberSold),
                                PyMax(sales_df[1].ActualWeeks, RInt(1))), 2)
           /\ reorder_df[i].ReportWeeks = PyRoundTo(sales_df[1].ActualWeeks, 1)

\* the custom keywords in list order, then the built-in ones in list order
KeywordsTried == custom_exclude_keywords \o BuiltInKeywords

Occurs(k) == StrIn(Lower(KeywordsTried[k]), Lower(item.Description))

\* C22: an item (that the item number rule has not already excluded) is
\* keyword-excluded exactly when some custom or built-in keyword occurs in its
\* description as a case-insensitive substring, and the reported keyword is the
\* first match, the custom keywords tried in list order before the built-in
\* keywords in list order.
C22_KeywordFirstMatch ==
    (Returned /\ ~ItemIdApplies) =>
       /\ (reason.kind = "Service/excluded keyword")
             <=> \E k \in 1..Len(KeywordsTried) : Occurs(k)
       /\ \A k \in 1..Len(KeywordsTried) :
             (Occurs(k) /\ \A j \in 1..(k - 1) : ~Occurs(j))
                => reason = KeywordReason(KeywordsTried[k])

C22_Witness ==
    /\ Returned
    /\ ~ItemIdApplies
    /\ item.Description = "Clearance Calendar 2025"
    /\ custom_exclude_keywords = << "mug", "calendar" >>
    /\ reason = KeywordReason("calendar")

MonthlyReturned == pc = "monthly returned"

LastMonth == StrpTime(monthly_sales_history[Len(monthly_sales_history)][1])

\* the calendar month n months after month mo, wrapping December to January
MonthsAfter(mo, n) == ((mo - 1 + n) % 12) + 1

\* C24: forecast_monthly_demand applies, and reports as target_month, the
\* seasonal factor of the calendar month exactly months_ahead months after the
\* last month of the history, December wrapping to January, for every last
\* month 1..12 and every months_ahead >= 1.
C24_TargetMonth ==
    (MonthlyReturned /\ Len(monthly_sales_history) > 0) =>
       /\ target_month = MonthsAfter(LastMonth.month, periods_ahead)
       /\ seasonal_forecast =
             RMul(forecasts.recommended,
                  nl_seasonality[MonthsAfter(LastMonth.month, periods_ahead)])

\* what holds instead: the target is the month of the day 30 * months_ahead
\* days after the first of the last month, and the factor applied is that of
\* the reported target month
C24_ThirtyDaySteps ==
    (MonthlyReturned /\ Len(monthly_sales_history) > 0) =>
       /\ target_month = MonthAfterDays(LastMonth.year, LastMonth.month,
                                        30 * periods_ahead)
       /\ seasonal_forecast = RMul(forecasts.recommended, nl_seasonality[target_month])
       /\ (periods_ahead = 1 /\ DaysInMonth(LastMonth.year, LastMonth.month) = 31)
             => target_month = LastMonth.month

\* the reorder list build_reorder gives for the current data and rule-set
FreshReorderList ==
    build_reorder(sales_df, cruise_df, reorder_weeks, safety_pct,
                  custom_exclude_keywords, custom_exclude_items)

\* the chat page is open with a reorder list to answer from
ChatReady == pc = "chat page" /\ reorder_df # NoneDf

\* the last answer explains an item as not excluded
ExplainedAsOrderable ==
    reply # NoResult /\ reply.kind = "priority" /\ Len(reply.rows) = 1

\* C25: once the chat agent has confirmed a new exclusion keyword, every later
\* chat answer comes from a reorder list in which the items containing that
\* keyword are EXCLUDED; the reorder list the chat answers from is always
\* build_reorder of the current sales data and the current rule-set.
C25_ChatAnswersFresh ==
    /\ ChatReady => reorder_df = FreshReorderList
    /\ ChatReady =>
          \A k \in 1..Len(custom_exclude_keywords) : \A i \in Rows :
              StrIn(custom_exclude_keywords[k], Lower(reorder_df[i].Description))
                 => reorder_df[i].Priority = "EXCLUDED"
    /\ (ChatReady /\ ExplainedAsOrderable) =>
          \A k \in 1..Len(custom_exclude_keywords) :
              ~StrIn(custom_exclude_keywords[k], Lower(reply.rows[1].Description))

\* the answers alone: an item explained as not excluded contains no custom
\* keyword of the current rule-set
C25_LaterAnswers ==
    (ChatReady /\ ExplainedAsOrderable) =>
       \A k \in 1..Len(custom_exclude_keywords) :
           ~StrIn(custom_exclude_keywords[k], Lower(reply.rows[1].Description))

\* the part of C25 that holds: the reorder list changes only as a whole, to
\* build_reorder of the data and rule-set of that moment
C25_BuiltWholesale ==
    [][reorder_df' # reorder_df =>
          reorder_df' = build_reorder(sales_df, cruise_df, reorder_weeks, safety_pct,
                                      custom_exclude_keywords, custom_exclude_items)]_vars

\* a keyword that occurs in every description
MatchesEverything(kw) == \A d \in Descriptions : StrIn(kw, Lower(d))

\* C26: after any sequence of Settings and chat operations the custom keyword
\* list has no duplicates, holds lower-case keywords only and never the empty
\* keyword, so that no custom keyword matches every description.
C26_KeywordListClean ==
    /\ NoDuplicates(custom_exclude_keywords)
    /\ \A k \in 1..Len(custom_exclude_keywords) :
          /\ custom_exclude_keywords[k] = Lower(custom_exclude_keywords[k])
          /\ custom_exclude_keywords[k] # ""
          /\ ~MatchesEverything(custom_exclude_keywords[k])

\* the part of C26 that holds: no duplicates, lower case only, and no empty
\* keyword from the Settings page
C26_NoDuplicatesLowerCase ==
    /\ NoDuplicates(custom_exclude_keywords)
    /\ \A k \in 1..Len(custom_exclude_keywords) :
          custom_exclude_keywords[k] = Lower(custom_exclude_keywords[k])

C26_SettingsNeverStoresEmpty ==
    [][(pc = "settings page" /\ ~InList("", custom_exclude_keywords))
          => ~InList("", custom_exclude_keywords')]_vars

\* weekly = sold / max(weeks, 1), weeks being the report weeks of the run
WeeklyOf(i) ==
    RDiv(RInt(sales_df[i].NumberSold), PyMax(safe_weeks(sales_df), RInt(1)))

\* C27: for every item with units sold >= 0 in the output of build_reorder,
\* velocity is Dead exactly when units sold = 0 (Fast when weekly >= 2, Medium
\* when weekly >= 0.5, Slow when weekly > 0, weekly = sold / max(weeks, 1)),
\* and such an item with velocity Dead has priority EXCLUDED.
C27_DeadIffNoSales ==
    Built =>
       \A i \in Rows :
           sales_df[i].NumberSold >= 0 =>
              /\ (reorder_df[i].Velocity = "Dead") <=> (sales_df[i].NumberSold = 0)
              /\ (reorder_df[i].Velocity = "Fast") <=> RLeq(RInt(2), WeeklyOf(i))
              /\ (reorder_df[i].Velocity = "Medium")
                    <=> (RLeq(Rat(1, 2), WeeklyOf(i)) /\ RLess(WeeklyOf(i), RInt(2)))
              /\ (reorder_df[i].Velocity = "Slow")
                    <=> (RLess(RInt(0), WeeklyOf(i)) /\ RLess(WeeklyOf(i), Rat(1, 2)))
              /\ reorder_df[i].Velocity = "Dead" => reorder_df[i].Priority = "EXCLUDED"

C27_Witness ==
    /\ Built
    /\ \E i, j \in Rows :
          /\ sales_df[i].NumberSold = 0
          /\ reorder_df[i].Velocity = "Dead"
          /\ reorder_df[i].Priority = "EXCLUDED"
          /\ sales_df[j].NumberSold > 0
          /\ reorder_df[j].Velocity = "Slow"

\* outside C27: an item with negative units sold is Dead without being excluded
C27_DeadReturnsExcluded ==
    Built =>
       \A i \in Rows :
           reorder_df[i].Velocity = "Dead" => reorder_df[i].Priority = "EXCLUDED"

====
